---- MODULE Spec2Model ----
(***************************************************************************)
(* A model of net_scan: the site crawler (scanner/crawler.py), the request *)
(* layer (utils/http_client.py), the scan orchestrator (scanner/engine.py) *)
(* and the SQL injection detector (scanner/detectors/sql_injection.py).    *)
(*                                                                         *)
(* URLs are records of the parts urllib.parse.urlparse splits a URL into.  *)
(* Time is counted in tenths of a second.                                  *)
(***************************************************************************)
EXTENDS Integers, Sequences, FiniteSets, TLC

VARIABLES
    \* ---- WebCrawler (crawler.py) ----
    start_url,          \* self.start_url
    max_depth,          \* self.max_depth
    max_pages,          \* self.max_pages
    crawl_timeout,      \* self.timeout of the crawler
    use_js_rendering,   \* self.use_js_rendering
    browser,            \* self.browser: "none" | "open" | "closed" | "terminated"
    crawled_urls,       \* self.crawled_urls
    to_crawl,           \* self.to_crawl: sequence of <<url, depth>>
    pages,              \* self.pages: sequence of CrawledPage records
    cur,                \* crawl()'s locals url, depth, page_data
    cpc,                \* position of crawl()
    clog,               \* history: what crawl() did, a sequence of events
    \* ---- HTTPClient (http_client.py) ----
    session,            \* self.session: "none" | "open" | "closed"
    timeout,            \* self.timeout
    max_retries,        \* self.max_retries
    cache,              \* self.cache: cache key -> [data, timestamp]
    last_request_time,  \* self.last_request_time
    now,                \* the clock, in tenths of a second
    task,               \* the position and locals of each task's _request call
    hist,               \* history: one record for each call of get/post
    \* ---- ScannerEngine (engine.py) ----
    target_url,         \* self.target_url
    profile,            \* self.profile
    site,               \* the vulnerability classes the target answers to
    epc,                \* position of run()
    crawled_pages,      \* self.crawled_pages
    endpoints,          \* run()'s local endpoints
    pos,                \* run()'s position in its loops: endpoint, parameter, detector
    findings,           \* self.findings
    dlog,               \* history: the detector invocations, in order
    \* ---- SQLInjectionDetector (detectors/sql_injection.py) ----
    handler,            \* the endpoint under test: how its handler answers
    sq,                 \* position and locals of test_url_parameter
    \* ---- XSSDetector (detectors/xss.py) ----
    xs,                 \* position and locals of _test_reflected_xss
    \* ---- CSRFDetector (detectors/csrf.py) ----
    cs,                 \* the markup given to test_page and what it returned
    \* ---- CommandInjectionDetector (detectors/cmd_injection.py) ----
    cm,                 \* position and locals of _test_time_based
    \* ---- the requests of a scan that are in flight ----
    stream,             \* how many fetches and probes are awaited, and by whom
    \* ---- XXEDetector, PathTraversalDetector, SSRFDetector (detectors/advanced.py) ----
    xx,                 \* position and locals of XXEDetector.test_xml_endpoint
    adv                 \* position and locals of a payload loop of test_url_parameter

crawlerVars == <<start_url, max_depth, max_pages, crawl_timeout, use_js_rendering, browser,
                 crawled_urls, to_crawl, pages, cur, cpc, clog>>

clientVars == <<session, timeout, max_retries, cache, last_request_time, now, task, hist>>

engineVars == <<target_url, profile, site, epc, crawled_pages, endpoints, pos, findings, dlog>>

sqliVars == <<handler, sq>>

xssVars == <<xs>>

csrfVars == <<cs>>

cmdVars == <<cm>>

streamVars == <<stream>>

advVars == <<xx, adv>>

vars == <<crawlerVars, clientVars, engineVars, sqliVars, xssVars, csrfVars, cmdVars, streamVars,
          advVars>>

(***************************************************************************)
(* Bounds of the model.                                                    *)
(***************************************************************************)
MaxDepthBound == 1      \* max_depth is drawn from 0..MaxDepthBound
MaxPagesBound == 2      \* max_pages is drawn from 0..MaxPagesBound
MaxCalls == 2           \* the calls of get/post made through one HTTPClient
MaxFailures == 2        \* the attempts that end in an exception, over all calls

(***************************************************************************)
(* Sequence helpers.                                                       *)
(***************************************************************************)
Range(s) == {s[i] : i \in 1..Len(s)}

Front(s) == SubSeq(s, 1, Len(s) - 1)

RECURSIVE Flatten(_)
Flatten(ss) == IF ss = <<>> THEN <<>> ELSE Head(ss) \o Flatten(Tail(ss))

\* [f(s[1]), ..., f(s[n])]
MapSeq(f(_), s) == [i \in 1..Len(s) |-> f(s[i])]

\* the sequences that list every element of the finite set S once
Orderings(S) ==
    {s \in [1..Cardinality(S) -> S] : \A i, j \in 1..Cardinality(S) : s[i] = s[j] => i = j}

(***************************************************************************)
(* URLs.  A URL is scheme://netloc path ?query #frag; path is the sequence *)
(* of its segments (<<>> is no path, <<"">> is "/", <<"a","b">> is "/a/b"),*)
(* query the sequence of its name=value pairs.  A reference found in a     *)
(* page (an href) has the same parts, any of which may be absent, and      *)
(* `rooted` says whether its path starts with "/".                         *)
(***************************************************************************)
Url(n, p, q, f) == [scheme |-> "http", netloc |-> n, path |-> p, query |-> q, frag |-> f]

Href(s, n, r, p, q, f) ==
    [scheme |-> s, netloc |-> n, rooted |-> r, path |-> p, query |-> q, frag |-> f]

QP(n, v) == [name |-> n, value |-> v]

\* urllib.parse.urljoin(base, href)
urljoin(base, h) ==
    IF h.scheme = "" /\ h.netloc = "" /\ h.path = <<>> /\ h.query = <<>> /\ h.frag = ""
    THEN base                                           \* urljoin(base, "") is base
    ELSE IF h.scheme # "" /\ h.scheme # base.scheme
    THEN [scheme |-> h.scheme, netloc |-> h.netloc, path |-> h.path,
          query |-> h.query, frag |-> h.frag]           \* another scheme: href as it is
    ELSE IF h.netloc # ""
    THEN [scheme |-> base.scheme, netloc |-> h.netloc, path |-> h.path,
          query |-> h.query, frag |-> h.frag]
    ELSE IF h.path = <<>>
    THEN [scheme |-> base.scheme, netloc |-> base.netloc, path |-> base.path,
          query |-> IF h.query # <<>> THEN h.query ELSE base.query, frag |-> h.frag]
    ELSE IF h.rooted
    THEN [scheme |-> base.scheme, netloc |-> base.netloc, path |-> h.path,
          query |-> h.query, frag |-> h.frag]
    ELSE [scheme |-> base.scheme, netloc |-> base.netloc,
          path |-> (IF base.path = <<>> THEN <<>> ELSE Front(base.path)) \o h.path,
          query |-> h.query, frag |-> h.frag]

\* urlparse(url).netloc
netloc(u) == u.netloc

\* full_url.split('#')[0]
StripFragment(u) == [u EXCEPT !.frag = ""]

\* href.startswith('#')
StartsWithHash(h) ==
    h.scheme = "" /\ h.netloc = "" /\ h.path = <<>> /\ h.query = <<>> /\ h.frag # ""

\* href.startswith('/'): "/path" and "//host/path"
StartsWithSlash(h) == h.scheme = "" /\ (h.netloc # "" \/ (h.path # <<>> /\ h.rooted))

\* the href is not the empty string
NonEmptyHref(h) ==
    ~(h.scheme = "" /\ h.netloc = "" /\ h.path = <<>> /\ h.query = <<>> /\ h.frag = "")

\* the text the URL string ends with: its fragment, else the value of its last
\* query pair, else its last path segment, else its host
UrlTail(u) ==
    IF u.frag # "" THEN u.frag
    ELSE IF u.query # <<>> THEN u.query[Len(u.query)].value
    ELSE IF u.path # <<>> THEN u.path[Len(u.path)]
    ELSE u.netloc

\* the texts of the model that end, in lower case, with one of excluded_extensions
ExcludedTails == {"logo.png", "doc.PDF"}

\* list(parse_qs(urlparse(url).query).keys()): the names, in order and once
\* each, of the pairs whose value is not blank
RECURSIVE QueryKeys(_, _)
QueryKeys(q, seen) ==
    IF q = <<>> THEN <<>>
    ELSE IF Head(q).value = "" \/ Head(q).name \in seen THEN QueryKeys(Tail(q), seen)
    ELSE <<Head(q).name>> \o QueryKeys(Tail(q), seen \cup {Head(q).name})

parse_qs_keys(u) == QueryKeys(u.query, {})
(***************************************************************************)
(* Pages.  A document is what BeautifulSoup finds in the fetched markup:   *)
(* the href of each <a>, the URLs quoted in each onclick, each data-url,   *)
(* the href of each other element (<link>, <area>), and the forms.         *)
(***************************************************************************)
Host == "h.com"
Other == "evil.com"

NoHref == Href("", "", FALSE, <<>>, <<>>, "")
RootRel(p, q, f) == Href("", "", TRUE, p, q, f)
Abs(n, p) == Href("http", n, TRUE, p, <<>>, "")

Field(n, t) == [name |-> n, type |-> t]

\* has_action: the form has an action attribute; method: its method attribute,
\* "" when it has none
Form(ha, a, m, fs) == [has_action |-> ha, action |-> a, method |-> m, fields |-> fs]

Doc(as, oc, du, oh, fs) ==
    [anchors |-> as, onclicks |-> oc, data_urls |-> du, other_hrefs |-> oh, forms |-> fs]

DocEmpty == Doc(<<>>, <<>>, <<>>, <<>>, <<>>)

\* the demo application's home page (test_app.py) with a navigation bar added
DocHome ==
    Doc(<<RootRel(<<"a">>, <<>>, ""), RootRel(<<"a">>, <<>>, "sec"),
          Href("", "", FALSE, <<>>, <<>>, "top"), Abs(Other, <<"x">>)>>,
        <<>>, <<>>, <<>>,
        <<Form(TRUE, RootRel(<<"search">>, <<>>, ""), "GET", <<Field("username", "text")>>),
          Form(TRUE, RootRel(<<"contact">>, <<>>, ""), "post",
               <<Field("email", "text"), Field("message", "text"), Field("", "submit")>>)>>)

\* links in scripts and attributes, a form without named fields, a form posting
\* to another host
DocScripted ==
    Doc(<<Abs(Host, <<"a">>), Href("", "", FALSE, <<"rel">>, <<QP("id", "7")>>, "")>>,
        <<RootRel(<<"b">>, <<>>, ""), Abs(Other, <<"y">>)>>,
        <<Href("", Other, TRUE, <<"p">>, <<>>, ""), RootRel(<<"logo.png">>, <<>>, "")>>,
        <<RootRel(<<"a">>, <<>>, "")>>,
        <<Form(FALSE, NoHref, "", <<Field("", "submit")>>),
          Form(TRUE, Abs(Other, <<"collect">>), "POST", <<Field("q", "text")>>)>>)

\* a page that shows its search form twice, in the header and in the footer
DocTwin ==
    Doc(<<>>, <<>>, <<>>, <<>>,
        <<Form(TRUE, RootRel(<<"search">>, <<>>, ""), "GET", <<Field("q", "text")>>),
          Form(TRUE, RootRel(<<"search">>, <<>>, ""), "GET", <<Field("q", "text")>>)>>)

Docs == {DocEmpty, DocHome, DocScripted, DocTwin}

\* a same-domain check that accepts every URL
is_same_domain_Any(start, u) == TRUE

\* WebCrawler._is_same_domain, with base_domain = urlparse(start_url).netloc
is_same_domain(start, u) == netloc(u) = netloc(start)

\* an extension check that excludes nothing
has_excluded_extension_Never(u) == FALSE

\* WebCrawler._has_excluded_extension
has_excluded_extension(u) == UrlTail(u) \in ExcludedTails

\* WebCrawler._extract_links before its final list(set(links)): the links of the
\* four rules, in the order found
AnchorLinks(start, base, doc) ==
    LET one(h) == IF NonEmptyHref(h) /\ ~StartsWithHash(h)
                     /\ is_same_domain(start, StripFragment(urljoin(base, h)))
                  THEN <<StripFragment(urljoin(base, h))>> ELSE <<>>
    IN  Flatten(MapSeq(one, doc.anchors))

JoinedLinks(start, base, hrefs) ==
    LET one(h) == IF NonEmptyHref(h) /\ is_same_domain(start, urljoin(base, h))
                  THEN <<urljoin(base, h)>> ELSE <<>>
    IN  Flatten(MapSeq(one, hrefs))

SlashLinks(start, base, hrefs) ==
    LET one(h) == IF NonEmptyHref(h) /\ StartsWithSlash(h)
                     /\ is_same_domain(start, urljoin(base, h))
                  THEN <<urljoin(base, h)>> ELSE <<>>
    IN  Flatten(MapSeq(one, hrefs))

FoundLinks(start, base, doc) ==
    AnchorLinks(start, base, doc)
    \o JoinedLinks(start, base, doc.onclicks)
    \o JoinedLinks(start, base, doc.data_urls)
    \o SlashLinks(start, base, doc.anchors \o doc.other_hrefs)

\* WebCrawler._extract_links: list(set(links)) keeps each link once, in an order
\* the hash seed decides
extract_links(start, base, doc) == Orderings(Range(FoundLinks(start, base, doc)))

\* WebCrawler._extract_forms (the <form> elements)
extract_forms(base, doc) ==
    LET named(fs) == SelectSeq(fs, LAMBDA f : f.name # "")
        one(f) == [action |-> urljoin(base, IF f.has_action THEN f.action ELSE NoHref),
                   method |-> IF f.method \in {"", "get", "GET"} THEN "GET"
                              ELSE IF f.method \in {"post", "POST"} THEN "POST"
                              ELSE f.method,
                   fields |-> named(f.fields)]
    IN  MapSeq(one, doc.forms)

\* the CrawledPage _crawl_page builds from a fetched document
CrawledPage(url, doc, links) ==
    [url |-> url, html |-> doc, forms |-> extract_forms(url, doc),
     links |-> links, parameters |-> parse_qs_keys(url)]
(***************************************************************************)
(* WebCrawler.get_testable_endpoints                                       *)
(***************************************************************************)
Endpoint(u, m, ps, t) == [url |-> u, method |-> m, parameters |-> ps, type |-> t]

\* 1. URL parameters of the discovered pages
UrlParamEndpoints(ps) ==
    LET one(pg) == IF pg.parameters # <<>>
                   THEN <<Endpoint(pg.url, "GET", pg.parameters, "url_param")>> ELSE <<>>
    IN  Flatten(MapSeq(one, ps))

\* form endpoints without the `if params:` guard
FormEndpoints_NoGuard(ps) ==
    LET params(f) == MapSeq(LAMBDA x : x.name, f.fields)
        one(pg) == MapSeq(LAMBDA f : Endpoint(f.action, f.method, params(f), "form"), pg.forms)
    IN  Flatten(MapSeq(one, ps))

\* 2. form endpoints, only of the forms that have named fields
FormEndpoints(ps) ==
    LET params(f) == MapSeq(LAMBDA x : x.name, f.fields)
        form(f) == IF params(f) # <<>>
                   THEN <<Endpoint(f.action, f.method, params(f), "form")>> ELSE <<>>
        one(pg) == Flatten(MapSeq(form, pg.forms))
    IN  Flatten(MapSeq(one, ps))

\* 3. common_params[:5], injected into the pages that have no parameter
InjectedParams == <<"id", "search", "query", "q", "name">>

InjectedEndpoints(ps) ==
    LET inject(pg) == MapSeq(LAMBDA prm : Endpoint(pg.url, "GET", <<prm>>, "injected_param"),
                             InjectedParams)
        one(pg) == IF pg.parameters = <<>> THEN inject(pg) ELSE <<>>
    IN  Flatten(MapSeq(one, ps))

\* 4. one path_test endpoint for each discovered page
PathTestEndpoints(ps) ==
    MapSeq(LAMBDA pg : Endpoint(pg.url, "GET", <<>>, "path_test"), ps)

\* 5. the common endpoints, joined to start_url.rsplit('/', 1)[0]: the start URL
\* up to its last "/", which is the second "/" of "http://" when it has no path
\* (no query value or fragment of the model holds a "/")
CommonPaths ==
    << <<"admin">>, <<"api">>, <<"api", "v1">>, <<"api", "admin">>, <<"search">>,
       <<"download">>, <<"upload">>, <<"login">>, <<"config">>, <<"status">>,
       <<"health">>, <<"debug">> >>

rsplit_base(start) ==
    IF start.path = <<>>
    THEN [scheme |-> start.scheme, netloc |-> "", path |-> <<>>, query |-> <<>>, frag |-> ""]
    ELSE [scheme |-> start.scheme, netloc |-> start.netloc, path |-> Front(start.path),
          query |-> <<>>, frag |-> ""]

CommonEndpoints(start) ==
    LET test_url(p) == urljoin(rsplit_base(start), RootRel(p, <<>>, ""))
        one(p) == IF is_same_domain(start, test_url(p))
                  THEN <<Endpoint(test_url(p), "GET", <<>>, "common_endpoint")>> ELSE <<>>
    IN  Flatten(MapSeq(one, CommonPaths))

get_testable_endpoints(ps, start) ==
    UrlParamEndpoints(ps) \o FormEndpoints(ps) \o InjectedEndpoints(ps)
    \o PathTestEndpoints(ps) \o CommonEndpoints(start)

(***************************************************************************)
(* WebCrawler.crawl                                                        *)
(***************************************************************************)
StartUrls ==
    { Url(Host, <<>>, <<>>, ""),                                \* http://h.com
      Url(Host, <<"">>, <<>>, ""),                              \* http://h.com/
      Url(Host, <<"shop", "item">>, <<QP("id", "1")>>, ""),     \* http://h.com/shop/item?id=1
      Url(Host, <<"logo.png">>, <<>>, "") }                     \* http://h.com/logo.png

Unbound == [st |-> "unbound"]
None == [st |-> "none"]
Some(v) == [st |-> "some", val |-> v]

Event(e, u, d) == [ev |-> e, url |-> u, depth |-> d]

\* the components a specification does not use: no crawler, no HTTPClient, no
\* ScannerEngine, no detector has been constructed
\* no request is awaited
NoStream == [fetch |-> 0, probe |-> 0, sent |-> 0, probed |-> FALSE]

NoCrawler ==
    /\ start_url = None /\ max_depth = 0 /\ max_pages = 0 /\ crawl_timeout = 0
    /\ use_js_rendering = FALSE /\ browser = "none" /\ crawled_urls = {}
    /\ to_crawl = <<>> /\ pages = <<>>
    /\ cur = [url |-> Unbound, depth |-> Unbound, page_data |-> Unbound, via |-> Unbound]
    /\ cpc = "idle" /\ clog = <<>>

NoClient ==
    /\ session = "none" /\ timeout = 0 /\ max_retries = 0 /\ cache = <<>>
    /\ last_request_time = 0 /\ now = 0 /\ task = <<>> /\ hist = <<>>

NoEngine ==
    /\ target_url = None /\ profile = "" /\ site = {} /\ epc = "idle"
    /\ crawled_pages = <<>> /\ endpoints = <<>> /\ pos = [e |-> 0, p |-> 0, d |-> 0]
    /\ findings = <<>> /\ dlog = <<>> /\ stream = NoStream

NoDetector ==
    /\ handler = None /\ sq = [pc |-> "idle"]
    /\ xs = [pc |-> "idle"] /\ cs = [pc |-> "idle"] /\ cm = [pc |-> "idle"]
    /\ xx = [pc |-> "idle"] /\ adv = [pc |-> "idle"]

\* WebCrawler.__init__
\* WebCrawler.__init__'s default timeout, 30 s, in tenths of a second
default_crawl_timeout == 300

CrawlerInit ==
    /\ NoClient /\ NoEngine /\ NoDetector
    /\ start_url \in StartUrls
    /\ max_depth \in 0..MaxDepthBound
    /\ max_pages \in 0..MaxPagesBound
    /\ crawl_timeout = default_crawl_timeout
    /\ use_js_rendering \in BOOLEAN
    /\ browser = "none"
    /\ crawled_urls = {}
    /\ to_crawl = << <<start_url, 0>> >>
    /\ pages = <<>>
    /\ cur = [url |-> Unbound, depth |-> Unbound, page_data |-> Unbound, via |-> Unbound]
    /\ cpc = "start"
    /\ clog = <<>>

\* a crawl() whose outer handler lets the exception through to the caller
AfterCrawlError_Propagates == "raised"

\* `except Exception as e: logger.error(...)` of crawl(): the exception is
\* logged, and crawl() goes on to `return self.pages`
AfterCrawlError == "done"

\* async_playwright() cannot start its driver: the exception leaves the outer try
CrawlPlaywrightFails ==
    /\ cpc = "start"
    /\ cpc' = AfterCrawlError
    /\ clog' = Append(clog, Event("error", Unbound, Unbound))
    /\ UNCHANGED <<clientVars, sqliVars, xssVars, csrfVars, cmdVars, advVars, streamVars>>
    /\ UNCHANGED engineVars
    /\ UNCHANGED <<start_url, max_depth, max_pages, crawl_timeout, use_js_rendering, browser,
                   crawled_urls, to_crawl, pages, cur>>

\* p.chromium.launch(): the browser, or the fallback to static parsing
CrawlLaunch ==
    /\ cpc = "start"
    /\ \/ browser' = "open" /\ UNCHANGED use_js_rendering
       \/ browser' = "none" /\ use_js_rendering' = FALSE
    /\ cpc' = "loop"
    /\ UNCHANGED <<clientVars, sqliVars, xssVars, csrfVars, cmdVars, advVars, streamVars>>
    /\ UNCHANGED engineVars
    /\ UNCHANGED <<start_url, max_depth, max_pages, crawl_timeout, crawled_urls, to_crawl,
                   pages, cur, clog>>

LoopRuns == to_crawl # <<>> /\ Cardinality(crawled_urls) < max_pages

\* the four reasons for which the loop skips the entry it dequeued
SkipEntry(u, d) ==
    \/ u \in crawled_urls
    \/ d > max_depth
    \/ ~is_same_domain(start_url, u)
    \/ has_excluded_extension(u)

\* one iteration that ends in `continue`
CrawlSkip ==
    /\ cpc = "loop" /\ LoopRuns
    /\ LET u == Head(to_crawl)[1]
           d == Head(to_crawl)[2]
       IN  /\ SkipEntry(u, d)
           /\ cur' = [cur EXCEPT !.url = u, !.depth = d]
    /\ to_crawl' = Tail(to_crawl)
    /\ UNCHANGED <<clientVars, sqliVars, xssVars, csrfVars, cmdVars, advVars, streamVars>>
    /\ UNCHANGED engineVars
    /\ UNCHANGED <<start_url, max_depth, max_pages, crawl_timeout, use_js_rendering, browser,
                   crawled_urls, pages, cpc, clog>>

\* _crawl_page: `if self.use_js_rendering` chooses _render_with_js, else
\* _fetch_html
FetchVia == IF use_js_rendering THEN [st |-> "render"] ELSE [st |-> "raw"]

\* one iteration that reaches _crawl_page: the page, or None when the fetch, the
\* rendering or the parse fails or the markup is empty
CrawlFetchStep ==
    /\ cpc = "loop" /\ LoopRuns
    /\ LET u == Head(to_crawl)[1]
           d == Head(to_crawl)[2]
       IN  /\ ~SkipEntry(u, d)
           /\ \/ /\ cur' = [url |-> u, depth |-> d, page_data |-> None, via |-> FetchVia]
                 /\ clog' = Append(clog, Event("fetch_failed", u, d))
              \/ /\ use_js_rendering => browser = "open"
                 /\ \E doc \in Docs : \E links \in extract_links(start_url, u, doc) :
                        cur' = [url |-> u, depth |-> d,
                                page_data |-> Some(CrawledPage(u, doc, links)),
                                via |-> FetchVia]
                 /\ clog' = Append(clog, Event("fetched", u, d))
    /\ to_crawl' = Tail(to_crawl)
    /\ UNCHANGED <<clientVars, sqliVars, xssVars, csrfVars, cmdVars, advVars>>
    /\ UNCHANGED engineVars
    /\ UNCHANGED <<start_url, max_depth, max_pages, crawl_timeout, use_js_rendering, browser,
                   crawled_urls, pages, cpc>>

CrawlFetch == CrawlFetchStep /\ UNCHANGED streamVars

\* the while condition is false
CrawlLoopExit ==
    /\ cpc = "loop" /\ ~LoopRuns
    /\ cpc' = "after"
    /\ UNCHANGED <<clientVars, sqliVars, xssVars, csrfVars, cmdVars, advVars, streamVars>>
    /\ UNCHANGED engineVars
    /\ UNCHANGED <<start_url, max_depth, max_pages, crawl_timeout, use_js_rendering, browser,
                   crawled_urls, to_crawl, pages, cur, clog>>

\* the links of the page that are not crawled yet, as queue entries
NewEntries(links, visited, d) ==
    MapSeq(LAMBDA l : <<l, d>>, SelectSeq(links, LAMBDA l : l \notin visited))

\* a context manager that leaves the browser to itself
playwright_stop_Leak(b) == b

\* the end of `async with async_playwright() as p`, on a return and on an
\* exception alike: the context manager stops the Playwright driver, and the
\* driver takes down the browser it launched when that is still open
playwright_stop(b) == IF b = "open" THEN "terminated" ELSE b

\* `if page_data:` after the loop, when no iteration reached _crawl_page:
\* page_data is not bound and the NameError leaves the `async with` block,
\* past browser.close(), and then the outer try
CrawlUnbound ==
    /\ cpc = "after" /\ cur.page_data = Unbound
    /\ cpc' = AfterCrawlError
    /\ browser' = playwright_stop(browser)
    /\ clog' = Append(clog, Event("error", cur.url, cur.depth))
    /\ UNCHANGED <<clientVars, sqliVars, xssVars, csrfVars, cmdVars, advVars, streamVars>>
    /\ UNCHANGED engineVars
    /\ UNCHANGED <<start_url, max_depth, max_pages, crawl_timeout, use_js_rendering,
                   crawled_urls, to_crawl, pages, cur>>

\* `if page_data:` after the loop: record the page, mark the URL, enqueue the links
CrawlRecord ==
    /\ cpc = "after" /\ cur.page_data # Unbound
    /\ IF cur.page_data = None
       THEN UNCHANGED <<pages, crawled_urls, to_crawl, clog>>
       ELSE /\ pages' = Append(pages, cur.page_data.val)
            /\ crawled_urls' = crawled_urls \cup {cur.url}
            /\ to_crawl' = to_crawl \o NewEntries(cur.page_data.val.links,
                                                  crawled_urls \cup {cur.url},
                                                  cur.depth + 1)
            /\ clog' = Append(clog, Event("recorded", cur.url, cur.depth))
    /\ cpc' = "close"
    /\ UNCHANGED <<clientVars, sqliVars, xssVars, csrfVars, cmdVars, advVars, streamVars>>
    /\ UNCHANGED engineVars
    /\ UNCHANGED <<start_url, max_depth, max_pages, crawl_timeout, use_js_rendering, browser, cur>>

\* `if self.browser: await self.browser.close()`, the end of the `async with`
\* block, and crawl() returns self.pages
CrawlClose ==
    /\ cpc = "close"
    /\ browser' = playwright_stop(IF browser = "open" THEN "closed" ELSE browser)
    /\ cpc' = "done"
    /\ UNCHANGED <<clientVars, sqliVars, xssVars, csrfVars, cmdVars, advVars, streamVars>>
    /\ UNCHANGED engineVars
    /\ UNCHANGED <<start_url, max_depth, max_pages, crawl_timeout, use_js_rendering,
                   crawled_urls, to_crawl, pages, cur, clog>>

CrawlerNext ==
    \/ CrawlPlaywrightFails
    \/ CrawlLaunch
    \/ CrawlSkip
    \/ CrawlFetch
    \/ CrawlLoopExit
    \/ CrawlUnbound
    \/ CrawlRecord
    \/ CrawlClose

CrawlerSpec == CrawlerInit /\ [][CrawlerNext]_vars

\* crawl() is a coroutine the event loop keeps running: each of its awaits
\* returns or raises, every fetch within its timeout
CrawlerLive == CrawlerSpec /\ WF_vars(CrawlerNext)
(***************************************************************************)
(* Claims about the crawler, checked under CrawlerSpec.                    *)
(***************************************************************************)
Events(e) == {i \in 1..Len(clog) : clog[i].ev = e}

\* C1: every CrawledPage stored in pages, and every URL in the links list of
\* a stored page, has the network location of the start URL.
C1_SameOrigin ==
    \A i \in 1..Len(pages) :
        /\ netloc(pages[i].url) = netloc(start_url)
        /\ \A l \in Range(pages[i].links) : netloc(l) = netloc(start_url)

\* a crawl that stored a page whose markup refers to another host and that kept links
C1_Witness ==
    /\ cpc = "done" /\ Len(pages) = 1
    /\ pages[1].html = DocScripted /\ Len(pages[1].links) >= 2

\* C2 (as claimed): a start page that links to a second same-origin page,
\* not excluded, yields two recorded pages when max_depth >= 1 and
\* max_pages >= 2 and no fetch failed.
C2_LinkedPageRecorded ==
    ( /\ cpc = "done" /\ Len(pages) >= 1
      /\ max_depth >= 1 /\ max_pages >= 2
      /\ Events("fetch_failed") = {}
      /\ \E l \in Range(pages[1].links) :
            l # pages[1].url /\ ~has_excluded_extension(l) )
    => Len(pages) >= 2

\* C3: the number of visited URLs never exceeds max_pages; no page is
\* recorded for a queue entry whose depth exceeds max_depth, whose URL is
\* off-origin or has an excluded extension; no URL is recorded twice.
C3_Budget ==
    /\ Cardinality(crawled_urls) <= max_pages
    /\ \A i \in Events("recorded") :
          /\ clog[i].depth <= max_depth
          /\ is_same_domain(start_url, clog[i].url)
          /\ UrlTail(clog[i].url) \notin ExcludedTails
    /\ \A i, j \in 1..Len(pages) : pages[i].url = pages[j].url => i = j
    /\ Len(pages) = Cardinality(Events("recorded"))

\* a crawl that used its whole page budget
C3_Witness ==
    cpc = "done" /\ Len(pages) = 1 /\ Cardinality(crawled_urls) = max_pages

\* C4: every endpoint get_testable_endpoints() returns has a non-empty
\* parameter list unless its type is path_test or common_endpoint.
C4_Parameters ==
    LET eps == get_testable_endpoints(pages, start_url)
    IN  \A i \in 1..Len(eps) :
            eps[i].parameters # <<>> \/ eps[i].type \in {"path_test", "common_endpoint"}

\* endpoints of a crawled page that holds a form without named fields
C4_Witness ==
    /\ cpc = "done" /\ Len(pages) = 1
    /\ \E i \in 1..Len(pages[1].forms) : pages[1].forms[i].fields = <<>>
    /\ \E e \in Range(get_testable_endpoints(pages, start_url)) : e.type = "form"
(***************************************************************************)
(* HTTPClient (utils/http_client.py).  A task is a coroutine that calls    *)
(* get/post; the code between two awaits of _request is one action.  The   *)
(* clock stands for both asyncio's loop.time() and datetime.now().         *)
(***************************************************************************)
Tasks == {1}

Seconds(n) == 10 * n

rate_limit_delay == 5               \* 0.5 s
cache_ttl == Seconds(300)
default_max_retries == 3

Req(m, u, kw) == [method |-> m, url |-> u, kwargs |-> kw]

\* the calls the callers make: get(url), post(url, data=...)
Requests == {Req("GET", "/a", "{}"), Req("GET", "/b", "{}"), Req("POST", "/a", "{data}")}

\* the time a caller lets pass before its next call
Gaps == {0, cache_ttl}

\* the time the server takes to answer, or the transport to fail
NetDurations == {1}

\* how much later than asked the sleep of _rate_limit may return
SleepLate == {0, 1}

\* what one attempt of session.request ends in
Responses == {<<200, "ok">>, <<500, "error">>}
Failures == {"timeout", "connector", "other"}

\* response_data of _request
ResponseData(st, c, tm) == [status |-> st, content |-> c, timestamp |-> tm]

Raised == [st |-> "raised"]

\* HTTPClient._get_cache_key: the md5 of "method:url:kwargs", taken as injective
get_cache_key(req) == <<req.method, req.url, req.kwargs>>

EmptyCache == [k \in {} |-> None]

CachePut(c, k, v) == [x \in (DOMAIN c) \cup {k} |-> IF x = k THEN v ELSE c[x]]

CacheDel(c, k) == [x \in (DOMAIN c) \ {k} |-> c[x]]

\* a lookup that still serves an entry whose age is the TTL
check_cache_AtTtl(c, k, tm) ==
    IF k \in DOMAIN c /\ tm - c[k].timestamp <= cache_ttl THEN Some(c[k].data) ELSE None

\* HTTPClient._check_cache: the value returned at time tm
check_cache(c, k, tm) ==
    IF k \in DOMAIN c /\ tm - c[k].timestamp < cache_ttl THEN Some(c[k].data) ELSE None

\* HTTPClient._check_cache: the cache it leaves, an expired entry deleted
check_cache_evict(c, k, tm) ==
    IF k \in DOMAIN c /\ ~(tm - c[k].timestamp < cache_ttl) THEN CacheDel(c, k) ELSE c

\* a store condition that caches nothing
Cacheable_Never(m, st) == FALSE

\* a store condition that looks at the method alone
Cacheable_AnyStatus(m, st) == m = "GET"

\* `if method == "GET" and resp.status == 200`
Cacheable(m, st) == m = "GET" /\ st = 200

\* a rate limiter that never sleeps
RateLimitSleep_None(elapsed) == 0

\* HTTPClient._rate_limit: the time to sleep
RateLimitSleep(elapsed) == IF elapsed < rate_limit_delay THEN rate_limit_delay - elapsed ELSE 0

\* a handler that retries after every exception
Retryable_All(kind) == TRUE

\* the exceptions _request retries: asyncio.TimeoutError, aiohttp.ClientConnectorError
Retryable(kind) == kind \in {"timeout", "connector"}

\* a backoff that does not grow
Backoff_Constant(attempt) == Seconds(1)

\* asyncio.sleep(2 ** attempt)
Backoff(attempt) == Seconds(2 ^ attempt)

\* `if attempt == self.max_retries - 1`
IsLastAttempt(attempt) == attempt = max_retries - 1

IdleTask == [pc |-> "idle", req |-> None, attempt |-> 0, until |-> 0, call |-> 0]

\* the history record of a call: when it started, whether the cache served it,
\* the rate limiter's timestamp, when each attempt was sent and ended and in what,
\* the backoff sleeps asked for, the result and when it returned
NewCall(req, tm) ==
    [req |-> req, start |-> tm, hit |-> FALSE, stamp |-> -1, sent |-> <<>>,
     outcomes |-> <<>>, ended |-> <<>>, sleeps |-> <<>>, result |-> None,
     done |-> FALSE, end |-> -1]

\* HTTPClient.__init__
ClientInit ==
    /\ NoCrawler /\ NoEngine /\ NoDetector
    /\ session = "none"
    /\ timeout = Seconds(30)
    /\ max_retries \in {2, default_max_retries}
    /\ cache = EmptyCache
    /\ last_request_time = 0
    /\ now = Seconds(2)
    /\ task = [t \in Tasks |-> IdleTask]
    /\ hist = <<>>

\* HTTPClient.__aenter__
HttpEnter ==
    /\ session = "none"
    /\ session' = "open"
    /\ UNCHANGED <<timeout, max_retries, cache, last_request_time, now, task, hist>>
    /\ UNCHANGED <<crawlerVars, engineVars, sqliVars, xssVars, csrfVars, cmdVars, advVars, streamVars>>

\* an exit that leaves the session as it is
aexit_Leak(s) == s

\* HTTPClient.__aexit__: `if self.session: await self.session.close()`
aexit(s) == IF s = "open" THEN "closed" ELSE s

\* the body of the `async with` is left
HttpExit ==
    /\ session = "open"
    /\ \A t \in Tasks : task[t].pc = "idle"
    /\ session' = aexit(session)
    /\ UNCHANGED <<timeout, max_retries, cache, last_request_time, now, task, hist>>
    /\ UNCHANGED <<crawlerVars, engineVars, sqliVars, xssVars, csrfVars, cmdVars, advVars, streamVars>>

\* the call of task t returns res at time tm; h is the history so far
Return(t, res, tm, h) ==
    /\ task' = [task EXCEPT ![t] = IdleTask]
    /\ hist' = [h EXCEPT ![task[t].call].result = res, ![task[t].call].done = TRUE,
                         ![task[t].call].end = tm]

\* `for attempt in range(self.max_retries)` reaches attempt a at time tm: the
\* request is sent, unless the loop is over (`return None` after it)
Attempt(t, a, tm, h) ==
    IF a >= max_retries
    THEN Return(t, None, tm, h)
    ELSE /\ task' = [task EXCEPT ![t].pc = "inflight", ![t].attempt = a]
         /\ hist' = [h EXCEPT ![task[t].call].sent = Append(@, tm)]

\* a hit that takes the rate limiter's timestamp
AfterHit_Stamped(lrt, tm) == tm

\* `if cached: return cached`, before _rate_limit: last_request_time after a hit
AfterHit(lrt, tm) == lrt

\* get/post up to the first await of _request: the session check, the cache
\* lookup of a GET, and _rate_limit up to its sleep.  The callers use the client
\* as a scoped resource: none calls it after __aexit__.
HttpCall(t) ==
    /\ task[t].pc = "idle"
    /\ Len(hist) < MaxCalls
    /\ session # "closed"
    /\ \E req \in Requests, gap \in Gaps :
        LET tm == now + gap
            k == get_cache_key(req)
            h == Append(hist, NewCall(req, tm))
            n == Len(hist) + 1
            me == [IdleTask EXCEPT !.req = req, !.call = n]
            sleep == RateLimitSleep(tm - last_request_time)
        IN  /\ now' = tm
            /\ IF session = "none"
               THEN \* raise RuntimeError("HTTPClient not initialized ...")
                    /\ hist' = [h EXCEPT ![n].result = Raised, ![n].done = TRUE, ![n].end = tm]
                    /\ UNCHANGED <<task, cache, last_request_time>>
               ELSE IF req.method = "GET" /\ check_cache(cache, k, tm) # None
               THEN \* cache hit
                    /\ hist' = [h EXCEPT ![n].result = check_cache(cache, k, tm),
                                         ![n].hit = TRUE, ![n].done = TRUE, ![n].end = tm]
                    /\ last_request_time' = AfterHit(last_request_time, tm)
                    /\ UNCHANGED <<task, cache>>
               ELSE /\ cache' = IF req.method = "GET" THEN check_cache_evict(cache, k, tm)
                                ELSE cache
                    /\ IF sleep > 0
                       THEN /\ task' = [task EXCEPT ![t] = [me EXCEPT !.pc = "rate_limit",
                                                                     !.until = tm + sleep]]
                            /\ hist' = h
                            /\ UNCHANGED last_request_time
                       ELSE /\ last_request_time' = tm
                            /\ LET h1 == [h EXCEPT ![n].stamp = tm]
                               IN  IF max_retries = 0
                                   THEN /\ task' = task
                                        /\ hist' = [h1 EXCEPT ![n].done = TRUE, ![n].end = tm]
                                   ELSE /\ task' = [task EXCEPT ![t] = [me EXCEPT !.pc = "inflight"]]
                                        /\ hist' = [h1 EXCEPT ![n].sent = <<tm>>]
    /\ UNCHANGED <<session, timeout, max_retries>>
    /\ UNCHANGED <<crawlerVars, engineVars, sqliVars, xssVars, csrfVars, cmdVars, advVars, streamVars>>

\* a sleep returns at its deadline, or now when other tasks ran past it
Later(a, b) == IF a > b THEN a ELSE b

\* _rate_limit after its sleep: the timestamp is taken and the first attempt sent
HttpRateLimited(t) ==
    /\ task[t].pc = "rate_limit"
    /\ \E late \in SleepLate :
        LET tm == Later(now, task[t].until + late)
        IN  /\ now' = tm
            /\ last_request_time' = tm
            /\ Attempt(t, 0, tm, [hist EXCEPT ![task[t].call].stamp = tm])
    /\ UNCHANGED <<session, timeout, max_retries, cache>>
    /\ UNCHANGED <<crawlerVars, engineVars, sqliVars, xssVars, csrfVars, cmdVars, advVars, streamVars>>

\* the attempts that ended in an exception so far
RECURSIVE SumLen(_)
SumLen(ss) == IF ss = <<>> THEN 0 ELSE Len(Head(ss)) + SumLen(Tail(ss))

Failed ==
    SumLen(MapSeq(LAMBDA c : SelectSeq(c.outcomes, LAMBDA o : o # "response"), hist))

\* the attempt in flight ends in a response: it is cached if Cacheable, and returned
HttpResponse(t) ==
    /\ task[t].pc = "inflight"
    /\ \E d \in NetDurations, r \in Responses :
        LET tm == now + d
            st == r[1]
            data == ResponseData(st, r[2], tm)
            h == [hist EXCEPT ![task[t].call].outcomes = Append(@, "response"),
                              ![task[t].call].ended = Append(@, tm)]
        IN  /\ now' = tm
            /\ cache' = IF Cacheable(task[t].req.method, st)
                        THEN CachePut(cache, get_cache_key(task[t].req),
                                      [data |-> data, timestamp |-> tm])
                        ELSE cache
            /\ Return(t, Some(data), tm, h)
    /\ UNCHANGED <<session, timeout, max_retries, last_request_time>>
    /\ UNCHANGED <<crawlerVars, engineVars, sqliVars, xssVars, csrfVars, cmdVars, advVars, streamVars>>

\* the attempt in flight ends in an exception: a backoff sleep before the next
\* attempt, or None; head() makes one attempt
HttpFailure(t) ==
    /\ task[t].pc = "inflight"
    /\ Failed < MaxFailures
    /\ \E d \in NetDurations, kind \in Failures :
        LET tm == now + d
            a == task[t].attempt
            h == [hist EXCEPT ![task[t].call].outcomes = Append(@, kind),
                              ![task[t].call].ended = Append(@, tm)]
        IN  /\ now' = tm
            /\ IF Retryable(kind) /\ ~IsLastAttempt(a) /\ task[t].req.method # "HEAD"
               THEN /\ task' = [task EXCEPT ![t].pc = "backoff", ![t].until = tm + Backoff(a)]
                    /\ hist' = [h EXCEPT ![task[t].call].sleeps = Append(@, Backoff(a))]
               ELSE Return(t, None, tm, h)
    /\ UNCHANGED <<session, timeout, max_retries, cache, last_request_time>>
    /\ UNCHANGED <<crawlerVars, engineVars, sqliVars, xssVars, csrfVars, cmdVars, advVars, streamVars>>

\* the backoff sleep is over: the next attempt
HttpBackoffOver(t) ==
    /\ task[t].pc = "backoff"
    /\ now' = Later(now, task[t].until)
    /\ Attempt(t, task[t].attempt + 1, Later(now, task[t].until), hist)
    /\ UNCHANGED <<session, timeout, max_retries, cache, last_request_time>>
    /\ UNCHANGED <<crawlerVars, engineVars, sqliVars, xssVars, csrfVars, cmdVars, advVars, streamVars>>

ClientNext ==
    \/ HttpEnter
    \/ HttpExit
    \/ \E t \in Tasks : HttpCall(t)
    \/ \E t \in Tasks : HttpRateLimited(t)
    \/ \E t \in Tasks : HttpResponse(t)
    \/ \E t \in Tasks : HttpFailure(t)
    \/ \E t \in Tasks : HttpBackoffOver(t)

ClientSpec == ClientInit /\ [][ClientNext]_vars
(***************************************************************************)
(* Claims about the request layer, checked under ClientSpec.               *)
(***************************************************************************)
Calls == 1..Len(hist)

\* the calls made on a client that had been opened (the others raised)
Accepted == {i \in Calls : hist[i].result # Raised}

\* call j repeats the GET of call i before the cache TTL has passed since i returned
RepeatsWithinTtl(i, j) ==
    /\ i < j /\ i \in Accepted /\ j \in Accepted
    /\ hist[i].done /\ hist[j].done
    /\ hist[i].req.method = "GET" /\ hist[j].req = hist[i].req
    /\ hist[j].start - hist[i].end < cache_ttl

\* call i was answered by the network with status 200
Fetched200(i) ==
    ~hist[i].hit /\ hist[i].result # None /\ hist[i].result.val.status = 200

\* C5 (as claimed): the same GET issued twice within the cache TTL returns the
\* identical response record and causes at most one network request in total.
C5_AnyGetIdempotent ==
    \A i, j \in Calls :
        RepeatsWithinTtl(i, j) =>
            /\ hist[j].result = hist[i].result
            /\ Len(hist[i].sent) + Len(hist[j].sent) <= 1

\* C5 (amended): when a GET is answered with status 200, the same GET issued
\* again within the cache TTL of that response returns the identical response
\* record and causes no network request.
C5_CachedGetIdempotent ==
    \A i, j \in Calls :
        (RepeatsWithinTtl(i, j) /\ Fetched200(i)) =>
            /\ hist[j].result = hist[i].result
            /\ hist[j].hit /\ hist[j].sent = <<>>

\* a GET answered with 200 and repeated within the TTL
C5_Witness ==
    \E i, j \in Calls : RepeatsWithinTtl(i, j) /\ Fetched200(i) /\ hist[j].hit

\* the calls that went through the rate limiter
Limited == {i \in Accepted : hist[i].stamp # -1}

Hits(k) == Cardinality({i \in Accepted : i <= k /\ hist[i].hit})

\* C6: K calls issued one after another, h of them cache hits, take at least
\* (K-1-h) * rate_limit_delay: each call that reaches the network is
\* dispatched no earlier than rate_limit_delay after the rate limiter's
\* timestamp of the previous such call.
C6_RateLimit ==
    /\ \A i, j \in Limited : i < j => hist[j].stamp - hist[i].stamp >= rate_limit_delay
    /\ \A i \in Limited : \A a \in 1..Len(hist[i].sent) :
            hist[i].sent[a] >= hist[i].stamp /\ hist[i].stamp >= hist[i].start
    /\ \A k \in Accepted :
        LET first == CHOOSE f \in Accepted : \A i \in Accepted : f <= i
        IN  hist[k].done =>
                hist[k].end - hist[first].start
                    >= (Cardinality({i \in Accepted : i <= k}) - 1 - Hits(k)) * rate_limit_delay

\* a call that arrived early and slept before it reached the network
C6_Witness ==
    \E i, j \in Limited :
        /\ i < j /\ hist[j].done /\ hist[j].sent # <<>>
        /\ hist[j].start - hist[i].stamp < rate_limit_delay
        /\ hist[j].stamp > hist[j].start

AllRetryable(i) ==
    hist[i].outcomes # <<>> /\ \A a \in 1..Len(hist[i].outcomes) :
        hist[i].outcomes[a] \in {"timeout", "connector"}

\* C7: a call whose every attempt fails with a timeout or a connection error
\* makes at most max_retries attempts, sleeps 2^a seconds after failed attempt a
\* before the next attempt, and returns None after the last failed attempt
\* without raising.
C7_Retry ==
    \A i \in Accepted :
        /\ Len(hist[i].sent) <= max_retries
        /\ \A a \in 1..Len(hist[i].sent) - 1 :
              /\ hist[i].outcomes[a] \in {"timeout", "connector"}
              /\ hist[i].sleeps[a] = Seconds(2 ^ (a - 1))
              /\ hist[i].sent[a + 1] - hist[i].ended[a] >= Seconds(2 ^ (a - 1))
        /\ (hist[i].done /\ AllRetryable(i)) =>
              /\ Len(hist[i].outcomes) = max_retries
              /\ Len(hist[i].sleeps) = max_retries - 1
              /\ hist[i].result = None
              /\ hist[i].end = hist[i].ended[max_retries]

\* a call that used all its attempts, each of which failed
C7_Witness ==
    \E i \in Accepted :
        /\ hist[i].done /\ AllRetryable(i) /\ hist[i].result = None
        /\ Len(hist[i].sent) = max_retries /\ hist[i].sleeps # <<>>

\* in this step the attempt of task t fails with an exception other than a
\* timeout or a connection error
FailsWithOther(t) ==
    /\ task[t].pc = "inflight"
    /\ Len(hist'[task[t].call].outcomes) = Len(hist[task[t].call].outcomes) + 1
    /\ hist'[task[t].call].outcomes[Len(hist'[task[t].call].outcomes)] = "other"

\* C8: when an attempt fails with any other exception the call returns None
\* at once: no further attempt, no backoff sleep, the cache unchanged.
C8_OtherAborts ==
    [][\A t \in Tasks : FailsWithOther(t) =>
            /\ task'[t].pc = "idle"
            /\ hist'[task[t].call].done /\ hist'[task[t].call].result = None
            /\ hist'[task[t].call].sent = hist[task[t].call].sent
            /\ hist'[task[t].call].sleeps = hist[task[t].call].sleeps
            /\ hist'[task[t].call].end = now'
            /\ cache' = cache]_vars

\* a GET that failed with another exception while the cache held an entry
C8_Witness ==
    \E i \in Accepted :
        /\ hist[i].done /\ DOMAIN cache # {}
        /\ hist[i].outcomes # <<>>
        /\ hist[i].outcomes[Len(hist[i].outcomes)] = "other"
        /\ Len(hist[i].outcomes) = 2
(***************************************************************************)
(* ScannerEngine (scanner/engine.py).  run() crawls, opens an HTTPClient   *)
(* for the probing phase and hands it to the detectors.  At this level a   *)
(* detector invocation is one step: what it reports is decided by the      *)
(* vulnerability classes the target answers to (site).                     *)
(***************************************************************************)
Profiles == {"quick", "balanced", "aggressive", "thorough"}

\* the table of ScannerEngine._get_profile_config
ProfileTable ==
    [quick |-> [max_depth |-> 2, max_pages |-> 30, timeout |-> Seconds(15),
                tests |-> {"sqli", "xss"}],
     balanced |-> [max_depth |-> 3, max_pages |-> 100, timeout |-> Seconds(30),
                   tests |-> {"sqli", "xss", "csrf", "cmd", "path_traversal"}],
     aggressive |-> [max_depth |-> 5, max_pages |-> 500, timeout |-> Seconds(60),
                     tests |-> {"sqli", "xss", "csrf", "cmd", "path_traversal",
                                "xxe", "ssrf"}]]

\* profiles.get(profile, profiles['balanced'])
get_profile_config(p) ==
    IF p \in DOMAIN ProfileTable THEN ProfileTable[p] ELSE ProfileTable["balanced"]

\* the detectors run() calls for each parameter, in the order it calls them
ParamDetectors == <<"sqli", "xss", "cmd", "path_traversal", "ssrf">>

\* the classes the scanned site is vulnerable to
Sites == {{}, {"sqli", "xss"}, {"sqli", "xss", "cmd", "path_traversal", "ssrf"}}

\* the finding each detector's test_url_parameter appends; cvss_score in tenths
DetectorFinding(det, url, param, method) ==
    CASE det = "sqli" ->
            [type |-> "SQL Injection (Time-based Blind)", severity |-> "HIGH", url |-> url,
             parameter |-> param, method |-> method, payload |-> "1' AND SLEEP(5)--",
             evidence |-> "Response time", cvss_score |-> 86,
             remediation |-> "Use parameterized queries/prepared statements",
             cwe |-> "CWE-89"]
      [] det = "xss" ->
            [type |-> "Cross-Site Scripting (XSS)", severity |-> "HIGH", url |-> url,
             parameter |-> param, method |-> method, payload |-> "xss",
             evidence |-> "Payload reflected in response without encoding",
             cvss_score |-> 75]
      [] det = "cmd" ->
            [type |-> "OS Command Injection", severity |-> "CRITICAL", url |-> url,
             parameter |-> param, method |-> method, payload |-> "; sleep 5",
             evidence |-> "Response time increased significantly", cvss_score |-> 98]
      [] det = "path_traversal" ->
            [type |-> "Path Traversal", severity |-> "MEDIUM", url |-> url,
             parameter |-> param, payload |-> "../../../etc/passwd",
             evidence |-> "File/directory content disclosed", cvss_score |-> 75]
      [] det = "ssrf" ->
            [type |-> "Server-Side Request Forgery (SSRF)", severity |-> "HIGH", url |-> url,
             parameter |-> param, payload |-> "http://localhost/admin",
             evidence |-> "Server appears to have processed URL", cvss_score |-> 78]

\* <detector>.test_url_parameter(url, param, method) through a client whose
\* session is s: every request of a client that is not open fails, and a
\* detector whose requests fail reports nothing
test_url_parameter(det, url, param, method, s) ==
    IF s = "open" /\ det \in site THEN <<DetectorFinding(det, url, param, method)>> ELSE <<>>

\* the field names of the model that hold one of CSRFDetector's csrf_patterns
TokenNames == {"csrf_token", "_token", "nonce", "state"}

\* a token check that accepts an input of any type
has_csrf_token_AnyType(form) ==
    \E i \in 1..Len(form.fields) : form.fields[i].name \in TokenNames

\* CSRFDetector._has_csrf_token
has_csrf_token(form) ==
    \E i \in 1..Len(form.fields) :
        form.fields[i].type = "hidden" /\ form.fields[i].name \in TokenNames

\* form.get('method', 'GET').upper()
form_method(form) ==
    CASE form.method \in {"", "get"} -> "GET"
      [] form.method = "post" -> "POST"
      [] OTHER -> form.method

\* CSRFDetector.test_page(url, html)
test_page(url, html) ==
    LET one(form) ==
            IF form_method(form) \in {"POST", "PUT", "DELETE", "PATCH"} /\ ~has_csrf_token(form)
            THEN << [type |-> "Cross-Site Request Forgery (CSRF)", severity |-> "MEDIUM",
                     url |-> url,
                     form_action |-> IF form.has_action THEN form.action ELSE NoHref,
                     form_method |-> form_method(form),
                     evidence |-> "Form lacks CSRF token protection", cvss_score |-> 65] >>
            ELSE <<>>
    IN  Flatten(MapSeq(one, html.forms))

\* one detector invocation, and the session its requests found
Invocation(det, url, param, method, s) ==
    [det |-> det, url |-> url, parameter |-> param, method |-> method, session |-> s]

\* a finding list that is not empty when run() is called
InitialFindings_Stale ==
    <<DetectorFinding("xss", Url(Host, <<>>, <<>>, ""), "q", "GET")>>

\* self.findings = [] of ScannerEngine.__init__
InitialFindings == <<>>

\* ScannerEngine.__init__; run() has not been called
EngineInit ==
    /\ NoCrawler /\ NoClient /\ NoDetector
    /\ target_url \in StartUrls
    /\ profile \in Profiles
    /\ site \in Sites
    /\ epc = "init"
    /\ crawled_pages = <<>>
    /\ endpoints = <<>>
    /\ pos = [e |-> 0, p |-> 0, d |-> 0]
    /\ findings = InitialFindings
    /\ dlog = <<>>
    /\ stream = NoStream

\* run() up to `await crawler.crawl()`: the WebCrawler is constructed from the
\* profile
EngineStart ==
    /\ epc = "init"
    /\ epc' = "crawl"
    /\ start_url' = target_url
    /\ max_depth' = get_profile_config(profile).max_depth
    /\ max_pages' = get_profile_config(profile).max_pages
    /\ crawl_timeout' = default_crawl_timeout
    /\ use_js_rendering' = TRUE
    /\ browser' = "none"
    /\ crawled_urls' = {}
    /\ to_crawl' = << <<target_url, 0>> >>
    /\ pages' = <<>>
    /\ cur' = [url |-> Unbound, depth |-> Unbound, page_data |-> Unbound, via |-> Unbound]
    /\ cpc' = "start"
    /\ clog' = <<>>
    /\ UNCHANGED <<target_url, profile, site, crawled_pages, endpoints, pos, findings, dlog>>
    /\ UNCHANGED <<clientVars, sqliVars, xssVars, csrfVars, cmdVars, advVars, streamVars>>

\* crawl() has returned: `async with HTTPClient(timeout=...)` constructs and
\* opens the client, and the endpoints are listed
EngineEnter ==
    /\ epc = "crawl" /\ cpc = "done"
    /\ crawled_pages' = pages
    /\ timeout' = get_profile_config(profile).timeout
    /\ max_retries' = default_max_retries
    /\ cache' = EmptyCache
    /\ last_request_time' = 0
    /\ session' = "open"
    /\ endpoints' = get_testable_endpoints(pages, start_url)
    /\ pos' = [e |-> 1, p |-> 1, d |-> 1]
    /\ epc' = "probe"
    /\ UNCHANGED <<target_url, profile, site, findings, dlog>>
    /\ UNCHANGED <<now, task, hist>>
    /\ UNCHANGED <<crawlerVars, sqliVars, xssVars, csrfVars, cmdVars, advVars, streamVars>>

\* `if total_endpoints == 0: ... return self.findings`, through __aexit__
EngineNoEndpoints ==
    /\ epc = "probe" /\ Len(endpoints) = 0
    /\ session' = aexit(session)
    /\ epc' = "returned"
    /\ UNCHANGED <<target_url, profile, site, crawled_pages, endpoints, pos, findings, dlog>>
    /\ UNCHANGED <<timeout, max_retries, cache, last_request_time, now, task, hist>>
    /\ UNCHANGED <<crawlerVars, sqliVars, xssVars, csrfVars, cmdVars, advVars, streamVars>>

\* `for param in parameters`: the next detector of ParamDetectors, invoked if
\* the profile enables its test
EngineDetectStep ==
    /\ epc = "probe" /\ pos.e <= Len(endpoints)
    /\ pos.p <= Len(endpoints[pos.e].parameters)
    /\ LET ep == endpoints[pos.e]
           param == ep.parameters[pos.p]
           det == ParamDetectors[pos.d]
       IN  IF det \in get_profile_config(profile).tests
           THEN /\ findings' = findings
                        \o test_url_parameter(det, ep.url, param, ep.method, session)
                /\ dlog' = Append(dlog, Invocation(det, ep.url, param, ep.method, session))
           ELSE UNCHANGED <<findings, dlog>>
    /\ pos' = IF pos.d < Len(ParamDetectors)
              THEN [pos EXCEPT !.d = @ + 1]
              ELSE [pos EXCEPT !.p = @ + 1, !.d = 1]
    /\ UNCHANGED <<target_url, profile, site, epc, crawled_pages, endpoints>>
    /\ UNCHANGED <<clientVars, crawlerVars, sqliVars, xssVars, csrfVars, cmdVars, advVars>>

EngineDetect == EngineDetectStep /\ UNCHANGED streamVars

\* the pages whose URL is the endpoint's, in the order crawled
PagesAt(url) == SelectSeq(crawled_pages, LAMBDA pg : pg.url = url)

\* after the parameters of an endpoint: the CSRF test of the pages at its URL,
\* which reads the markup and sends nothing
EngineCsrf ==
    /\ epc = "probe" /\ pos.e <= Len(endpoints)
    /\ pos.p > Len(endpoints[pos.e].parameters)
    /\ LET url == endpoints[pos.e].url
           found(pg) == test_page(url, pg.html)
           called(pg) == Invocation("csrf", url, "", "", session)
       IN  IF "csrf" \in get_profile_config(profile).tests
           THEN /\ findings' = findings \o Flatten(MapSeq(found, PagesAt(url)))
                /\ dlog' = dlog \o MapSeq(called, PagesAt(url))
           ELSE UNCHANGED <<findings, dlog>>
    /\ pos' = [e |-> pos.e + 1, p |-> 1, d |-> 1]
    /\ UNCHANGED <<target_url, profile, site, epc, crawled_pages, endpoints>>
    /\ UNCHANGED <<clientVars, crawlerVars, sqliVars, xssVars, csrfVars, cmdVars, advVars, streamVars>>

\* the loop over the endpoints is over: the `async with` block ends, run()
\* returns self.findings
EngineFinish ==
    /\ epc = "probe" /\ Len(endpoints) > 0 /\ pos.e > Len(endpoints)
    /\ session' = aexit(session)
    /\ epc' = "returned"
    /\ UNCHANGED <<target_url, profile, site, crawled_pages, endpoints, pos, findings, dlog>>
    /\ UNCHANGED <<timeout, max_retries, cache, last_request_time, now, task, hist>>
    /\ UNCHANGED <<crawlerVars, sqliVars, xssVars, csrfVars, cmdVars, advVars, streamVars>>

\* an exception no detector catches, or the cancellation of run(), inside the
\* loop: it leaves the `async with` block through __aexit__ and then run()
EngineRaiseStep ==
    /\ epc = "probe" /\ pos.e <= Len(endpoints)
    /\ session' = aexit(session)
    /\ epc' = "raised"
    /\ UNCHANGED <<target_url, profile, site, crawled_pages, endpoints, pos, findings, dlog>>
    /\ UNCHANGED <<timeout, max_retries, cache, last_request_time, now, task, hist>>
    /\ UNCHANGED <<crawlerVars, sqliVars, xssVars, csrfVars, cmdVars, advVars>>

EngineRaise == EngineRaiseStep /\ UNCHANGED streamVars

EngineNext ==
    \/ EngineStart
    \/ CrawlerNext
    \/ EngineEnter
    \/ EngineNoEndpoints
    \/ EngineDetect
    \/ EngineCsrf
    \/ EngineFinish
    \/ EngineRaise

EngineSpec == EngineInit /\ [][EngineNext]_vars

\* a scan by the engine, or a client used on its own
SessionNext ==
    \/ EngineNext
    \/ epc = "idle" /\ ClientNext

SessionSpec == (EngineInit \/ ClientInit) /\ [][SessionNext]_vars
(***************************************************************************)
(* Claims about the session of the probing phase, checked under            *)
(* SessionSpec.                                                            *)
(***************************************************************************)
\* the detector invocations that send requests
Probes == {i \in 1..Len(dlog) : dlog[i].det # "csrf"}

\* the calls of get/post made on a client before it was opened
NeverOpened == {i \in Calls : hist[i].result = Raised}

\* C9: the session run() opens for the probing phase is closed on every exit
\* path of that phase (normal completion, the zero-endpoint early return, an
\* exception or cancellation inside the probe loop), no detector sends a
\* request through the client after it is closed, and a get/post on a client
\* that was never opened fails without any network activity.
C9_SessionScoped ==
    /\ epc \in {"returned", "raised"} => session = "closed"
    /\ epc \in {"init", "crawl", "probe"} => session # "closed"
    /\ \A i \in Probes : dlog[i].session = "open"
    /\ session = "none" => NeverOpened = Calls
    /\ \A i \in NeverOpened :
          /\ hist[i].done /\ ~hist[i].hit
          /\ hist[i].sent = <<>> /\ hist[i].stamp = -1 /\ hist[i].outcomes = <<>>
    /\ (session = "none" /\ epc = "idle") => (cache = EmptyCache /\ last_request_time = 0)

\* run() left the probe loop by an exception after detectors had sent requests
C9_Witness ==
    /\ epc = "raised" /\ session = "closed"
    /\ Probes # {} /\ findings # <<>>

\* the other exit paths and the call on a client never opened
C9_EarlyReturn == epc = "returned" /\ endpoints = <<>> /\ session = "closed"

C9_Completed == epc = "returned" /\ endpoints # <<>> /\ dlog # <<>> /\ session = "closed"

C9_CallBeforeOpen == epc = "idle" /\ NeverOpened # {}
(***************************************************************************)
(* SQLInjectionDetector (scanner/detectors/sql_injection.py), run through  *)
(* an open HTTPClient against one endpoint.  The handler of the endpoint   *)
(* answers every request with status 200 before the client's timeout; one  *)
(* action is one request of the detector with the code around it.          *)
(***************************************************************************)
Methods == {"GET", "POST"}

\* the time the handler takes for an ordinary input
Latencies == {1, Seconds(2), Seconds(5), Seconds(10)}

\* the time it adds for a sleep-injection payload
SleepDelays == {0, Seconds(5)}

\* how the content of its answers depends on the input
Flaws == {"none", "error", "error_same_length", "boolean", "banner"}

\* PayloadGenerator.SQL_PAYLOADS: the payloads the detector takes of each list
TimeBasedPayloads == <<"1' AND SLEEP(5)--", "1' AND BENCHMARK(5000000,MD5('test'))--">>

ErrorBasedPayloads ==
    <<"1' AND extractvalue(1, concat(0x7e, (select @@version)))--",
      "1' AND (SELECT 1 FROM (SELECT COUNT(*), ...) y)--",
      "1' AND 1=CAST(VERSION() AS NUMERIC)--">>

UnionBasedPayloads ==
    <<"1' UNION SELECT NULL, NULL, NULL--",
      "1' UNION ALL SELECT NULL, CONCAT(username, 0x3a, password), NULL FROM users--">>

true_payload == "1' AND '1'='1"
false_payload == "1' AND '1'='2"

\* the payloads that make a vulnerable database, or shell, sleep
SleepPayloads == {"1' AND SLEEP(5)--", "; sleep 5", "| sleep 5"}

\* the content of an answer: its length and whether _has_sql_error matches it
Page(len, err) == [length |-> len, sql_error |-> err]

HandlerLatency(h, value) ==
    h.latency + (IF value \in SleepPayloads THEN h.sleep_delay ELSE 0)

HandlerContent(h, value) ==
    LET quoted == value \notin {"1", "test"}
    IN  CASE h.flaw = "banner" -> Page(2, TRUE)
          [] h.flaw = "error" /\ quoted -> Page(3, TRUE)
          [] h.flaw = "error_same_length" /\ quoted -> Page(2, TRUE)
          [] h.flaw = "boolean" /\ value = false_payload -> Page(1, FALSE)
          [] OTHER -> Page(2, FALSE)

\* SQLInjectionDetector._send_payload: get(f"{url}{sep}{param}={payload}") or
\* post(url, data={param: payload})
send_payload(value, method) ==
    IF method = "GET" THEN Req("GET", <<"/item?id=", value>>, "{}")
    ELSE Req("POST", "/item", <<"id", value>>)

\* HTTPClient._request(req) called at time tm with cache c and rate limiter
\* timestamp lrt, when the first attempt is answered: the time it returns, the
\* cache and timestamp it leaves, and response_data
RequestAnswered(req, value, h, c, lrt, tm) ==
    LET k == get_cache_key(req)
        cached == IF req.method = "GET" THEN check_cache(c, k, tm) ELSE None
        c1 == IF req.method = "GET" THEN check_cache_evict(c, k, tm) ELSE c
        sent == tm + RateLimitSleep(tm - lrt)
        back == sent + HandlerLatency(h, value)
        data == ResponseData(200, HandlerContent(h, value), back)
    IN  IF cached # None
        THEN [now |-> tm, cache |-> c, last_request_time |-> lrt, data |-> cached.val]
        ELSE [now |-> back,
              cache |-> IF Cacheable(req.method, 200)
                        THEN CachePut(c1, k, [data |-> data, timestamp |-> back])
                        ELSE c1,
              last_request_time |-> sent,
              data |-> data]

\* the request of the detector in this step
Sent(value) ==
    RequestAnswered(send_payload(value, handler.method), value, handler,
                    cache, last_request_time, now)

\* the findings of the four techniques; cvss_score in tenths
SqliFinding(type, sev, score, payload, evidence) ==
    [type |-> type, severity |-> sev, url |-> "/item", parameter |-> "id",
     method |-> handler.method, payload |-> payload, evidence |-> evidence,
     cvss_score |-> score]

\* a time test without the `> 3` difference
TimeFlagged_TotalOnly(baseline_times, payload_time) == payload_time > Seconds(4)

\* `if time_diff > 3 and payload_time > 4`, with
\* time_diff = payload_time - sum(baseline_times) / len(baseline_times)
TimeFlagged(baseline_times, payload_time) ==
    /\ 2 * payload_time - (baseline_times[1] + baseline_times[2]) > 2 * Seconds(3)
    /\ payload_time > Seconds(4)

\* test_url_parameter starts with the time-based test of the first variation
SqStart ==
    [pc |-> "time_based", variation |-> 1, k |-> 1, baseline_times |-> <<>>,
     baseline |-> None, true_resp |-> None, findings |-> <<>>]

\* a detector constructed on an open client, before test_url_parameter
SqliInit ==
    /\ NoCrawler /\ NoEngine
    /\ xs = [pc |-> "idle"] /\ cs = [pc |-> "idle"] /\ cm = [pc |-> "idle"]
    /\ xx = [pc |-> "idle"] /\ adv = [pc |-> "idle"]
    /\ session = "open"
    /\ timeout \in {Seconds(15), Seconds(30)}
    /\ max_retries = default_max_retries
    /\ cache = EmptyCache
    /\ last_request_time = 0
    /\ now \in {0, Seconds(2)}
    /\ task = <<>> /\ hist = <<>>
    /\ handler \in [method : Methods, latency : Latencies,
                    sleep_delay : SleepDelays, flaw : Flaws]
    /\ handler.latency + handler.sleep_delay < timeout
    /\ sq = SqStart

\* what every step of the detector leaves alone
SqliFrame ==
    /\ UNCHANGED <<session, timeout, max_retries, task, hist, handler>>
    /\ UNCHANGED <<crawlerVars, engineVars, xssVars, csrfVars, cmdVars, advVars, streamVars>>

\* _test_time_based: one baseline measurement with the value "1", and
\* asyncio.sleep(0.1)
SqliBaseline ==
    /\ sq.pc = "time_based" /\ Len(sq.baseline_times) < 2
    /\ LET r == Sent("1")
       IN  /\ sq' = [sq EXCEPT !.baseline_times = Append(@, r.now - now)]
           /\ now' = r.now + 1
           /\ cache' = r.cache
           /\ last_request_time' = r.last_request_time
    /\ SqliFrame

\* an order in which the union-based test follows the time-based test
AfterTimeBased_UnionNext(s) ==
    IF s.k < Len(TimeBasedPayloads)
    THEN [s EXCEPT !.k = @ + 1, !.baseline_times = <<>>]
    ELSE [s EXCEPT !.pc = "union_based", !.k = 1, !.baseline_times = <<>>]

\* the technique that follows the time-based test, or its next payload
AfterTimeBased(s) ==
    IF s.k < Len(TimeBasedPayloads)
    THEN [s EXCEPT !.k = @ + 1, !.baseline_times = <<>>]
    ELSE [s EXCEPT !.pc = "error_based", !.k = 0, !.baseline_times = <<>>]

\* _test_time_based: the measurement with the payload and the decision
SqliDelayed ==
    /\ sq.pc = "time_based" /\ Len(sq.baseline_times) = 2
    /\ LET payload == TimeBasedPayloads[sq.k]
           r == Sent(payload)
           payload_time == r.now - now
       IN  /\ sq' = IF TimeFlagged(sq.baseline_times, payload_time)
                    THEN [sq EXCEPT !.pc = "done",
                             !.findings = <<SqliFinding("SQL Injection (Time-based Blind)",
                                  "HIGH", 86, payload,
                                  [baseline_times |-> sq.baseline_times,
                                   payload_time |-> payload_time])>>]
                    ELSE AfterTimeBased(sq)
           /\ now' = r.now
           /\ cache' = r.cache
           /\ last_request_time' = r.last_request_time
    /\ SqliFrame

\* _test_error_based: the baseline with the value "test" (k = 0), then one
\* payload for each step
SqliErrorBased ==
    /\ sq.pc = "error_based"
    /\ LET value == IF sq.k = 0 THEN "test" ELSE ErrorBasedPayloads[sq.k]
           r == Sent(value)
           page == r.data.content
           flagged == /\ page.sql_error /\ ~sq.baseline.sql_error
                      /\ page.length # sq.baseline.length
       IN  /\ sq' = IF sq.k = 0
                    THEN [sq EXCEPT !.baseline = page, !.k = 1]
                    ELSE IF flagged
                    THEN [sq EXCEPT !.pc = "done",
                             !.findings = <<SqliFinding("SQL Injection (Error-based)",
                                  "CRITICAL", 91, value,
                                  "SQL error message in response")>>]
                    ELSE IF sq.k < Len(ErrorBasedPayloads)
                    THEN [sq EXCEPT !.k = @ + 1]
                    ELSE [sq EXCEPT !.pc = "boolean_based", !.k = 0]
           /\ now' = r.now
           /\ cache' = r.cache
           /\ last_request_time' = r.last_request_time
    /\ SqliFrame

\* _test_boolean_based: the baseline (k = 0), the true condition (k = 1), the
\* false condition and the comparison of the two lengths (k = 2)
SqliBooleanBased ==
    /\ sq.pc = "boolean_based"
    /\ LET value == IF sq.k = 0 THEN "test"
                    ELSE IF sq.k = 1 THEN true_payload ELSE false_payload
           r == Sent(value)
           page == r.data.content
           flagged == /\ page.length # 0 /\ sq.true_resp.length > 0
                      /\ 10 * sq.true_resp.length > 11 * page.length
       IN  /\ sq' = IF sq.k = 0 THEN [sq EXCEPT !.k = 1]
                    ELSE IF sq.k = 1 THEN [sq EXCEPT !.true_resp = page, !.k = 2]
                    ELSE IF flagged
                    THEN [sq EXCEPT !.pc = "done",
                             !.findings = <<SqliFinding("SQL Injection (Boolean-based Blind)",
                                  "HIGH", 82, true_payload,
                                  [true_len |-> sq.true_resp.length,
                                   false_len |-> page.length])>>]
                    ELSE [sq EXCEPT !.pc = "union_based", !.k = 1]
           /\ now' = r.now
           /\ cache' = r.cache
           /\ last_request_time' = r.last_request_time
    /\ SqliFrame

\* _test_union_based: one payload for each step; after the last one the second
\* variation (_obfuscate_url returns the URL as it is), or the empty list
SqliUnionBased ==
    /\ sq.pc = "union_based"
    /\ LET value == UnionBasedPayloads[sq.k]
           r == Sent(value)
       IN  /\ sq' = IF r.data.content.sql_error
                    THEN [sq EXCEPT !.pc = "done",
                             !.findings = <<SqliFinding("SQL Injection (Union-based)",
                                  "CRITICAL", 91, value,
                                  "SQL error message indicating union injection")>>]
                    ELSE IF sq.k < Len(UnionBasedPayloads)
                    THEN [sq EXCEPT !.k = @ + 1]
                    ELSE IF sq.variation = 1
                    THEN [SqStart EXCEPT !.variation = 2]
                    ELSE [sq EXCEPT !.pc = "done"]
           /\ now' = r.now
           /\ cache' = r.cache
           /\ last_request_time' = r.last_request_time
    /\ SqliFrame

SqliNext ==
    \/ SqliBaseline
    \/ SqliDelayed
    \/ SqliErrorBased
    \/ SqliBooleanBased
    \/ SqliUnionBased

SqliSpec == SqliInit /\ [][SqliNext]_vars
(***************************************************************************)
(* Claims about the SQL injection detector, checked under SqliSpec.        *)
(***************************************************************************)
\* test_url_parameter has returned for a handler whose content does not depend
\* on the input
ReturnedFor(delay) ==
    sq.pc = "done" /\ handler.flaw = "none" /\ handler.sleep_delay = delay

\* the handler that delays 5 s only for the sleep payload: exactly one finding,
\* CRITICAL or HIGH, with a timing delta above 3 s
SleepDetected ==
    ReturnedFor(Seconds(5)) =>
        /\ Len(sq.findings) = 1
        /\ sq.findings[1].severity \in {"CRITICAL", "HIGH"}
        /\ sq.findings[1].type = "SQL Injection (Time-based Blind)"
        /\ LET ev == sq.findings[1].evidence
           IN  2 * ev.payload_time - (ev.baseline_times[1] + ev.baseline_times[2])
                   > 2 * Seconds(3)

\* the handler with the same latency for every input: no finding
ConstantLatencyClean == ReturnedFor(0) => sq.findings = <<>>

\* C10 (as claimed): against a handler that delays 5 s only for a
\* sleep-injection payload test_url_parameter returns exactly one finding, of
\* severity CRITICAL or HIGH, with a timing delta above 3 s; against a handler
\* with the same constant latency for every input (below the request timeout,
\* GET or POST, status 200) it returns no finding.
C10_TimeBased == SleepDetected /\ ConstantLatencyClean

\* a finding for a GET handler of constant latency: the second baseline was
\* served from the cache
C10_FalsePositive ==
    /\ ReturnedFor(0) /\ handler.method = "GET" /\ sq.findings # <<>>
    /\ sq.findings[1].evidence.baseline_times[2] = 0
(***************************************************************************)
(* XSSDetector (scanner/detectors/xss.py).  The content of a response is   *)
(* the sequence of its pieces: pieces of markup and echoes of the payload, *)
(* verbatim, HTML-entity-encoded or URL-encoded.                           *)
(* A regular expression `prefix + re.escape(payload)` matches where a      *)
(* verbatim echo follows a piece of markup that ends with the prefix.      *)
(* The handler answers every request; the payloads of one sample differ,   *)
(* so no request of the detector is served from the client's cache.        *)
(***************************************************************************)
MaxScans == 2           \* the scans of the same target
SampleSize == 2         \* the payloads get_xss_payloads draws (5 in the code)

\* PayloadGenerator.XSS_PAYLOADS: three of its payloads
XssPayloads ==
    {"<script>alert('XSS')</script>", "<img src=x onerror=alert('XSS')>",
     "javascript:alert('XSS')"}

\* random.sample(payloads, min(count, len(payloads))): any count different
\* payloads in any order
get_xss_payloads(count) ==
    LET n == IF count < Cardinality(XssPayloads) THEN count ELSE Cardinality(XssPayloads)
    IN  {s \in [1..n -> XssPayloads] : \A i, j \in 1..n : s[i] = s[j] => i = j}

Echo(p, form) == [text |-> p, form |-> form]

Markup(t) == [text |-> t, form |-> "markup"]

\* markup piece x is one of the strings of set S
MarkupOf(x, S) == x.form = "markup" /\ x.text \in S

\* the pieces of markup after which an echo is matched by _is_executable:
\* r'<script[^>]*>', r'on\w+\s*=\s*["\']?', r'href\s*=\s*["\']javascript:'
ScriptOpen == {"<script>", "<script type='text/javascript'>"}
EventAttribute == {"<img src=x onerror=", "<body onload='"}
HrefJavascript == {"<a href='javascript:"}

\* how the handler builds its answer around the value of the parameter
Templates ==
    [plain |-> <<"<p>hello</p>">>,
     text |-> <<"<p>", "VERBATIM", "</p>">>,
     entity |-> <<"<p>", "ENTITY", "</p>">>,
     entity_script |-> <<"<script>", "ENTITY", "</script>">>,
     url |-> <<"<p>", "URL", "</p>">>,
     url_script |-> <<"<script>", "URL", "</script>">>,
     script_start |-> <<"<script>", "VERBATIM", "</script>">>,
     script_inner |-> <<"<script type='text/javascript'>", "var q = '", "VERBATIM", "';",
                        "</script>">>,
     after_script |-> <<"<script>", "init();", "</script>", "<p>", "VERBATIM", "</p>">>,
     event |-> <<"<img src=x onerror=", "VERBATIM", ">">>,
     href |-> <<"<a href='javascript:", "VERBATIM", "'>">>]

\* a filter of the handler drops the values that hold a <script> tag
Filters == {"none", "script_tags"}

Filtered(h, p) == h.filter = "script_tags" /\ p = "<script>alert('XSS')</script>"

\* the content of the answer to a request that carries payload p
Render(h, p) ==
    LET piece(x) == CASE x = "VERBATIM" -> Echo(p, "verbatim")
                      [] x = "ENTITY" -> Echo(p, "entity")
                      [] x = "URL" -> Echo(p, "url")
                      [] OTHER -> Markup(x)
    IN  IF Filtered(h, p) THEN MapSeq(piece, Templates["plain"])
        ELSE MapSeq(piece, Templates[h.template])

\* XSSDetector._is_payload_reflected: `payload in content`, or
\* `urllib.parse.quote(payload) in content`
is_payload_reflected(content, p) ==
    \E i \in 1..Len(content) :
        content[i] \in {Echo(p, "verbatim"), Echo(p, "url")}

\* a context check that accepts every content
is_executable_Any(p, content) == TRUE

\* XSSDetector._is_executable: one of dangerous_contexts is found
is_executable(p, content) ==
    \E i \in 2..Len(content) :
        /\ content[i] = Echo(p, "verbatim")
        /\ MarkupOf(content[i - 1], ScriptOpen \cup EventAttribute \cup HrefJavascript)

XssFinding_ByPayload(url, param, method, p) ==
    [type |-> "Cross-Site Scripting (XSS)",
     severity |-> IF p = "<script>alert('XSS')</script>" THEN "HIGH" ELSE "MEDIUM",
     url |-> url, parameter |-> param, method |-> method, payload |-> p,
     evidence |-> "Payload reflected in response without encoding",
     cvss_score |-> IF p = "<script>alert('XSS')</script>" THEN 75 ELSE 61]

XssFinding(url, param, method, p) ==
    [type |-> "Cross-Site Scripting (XSS)", severity |-> "HIGH", url |-> url,
     parameter |-> param, method |-> method, payload |-> p,
     evidence |-> "Payload reflected in response without encoding", cvss_score |-> 75]

\* a detector constructed on an open client, before test_url_parameter
XssInit ==
    /\ NoCrawler /\ NoEngine
    /\ sq = [pc |-> "idle"] /\ cs = [pc |-> "idle"] /\ cm = [pc |-> "idle"]
    /\ xx = [pc |-> "idle"] /\ adv = [pc |-> "idle"]
    /\ session = "open"
    /\ timeout = Seconds(30)
    /\ max_retries = default_max_retries
    /\ cache = EmptyCache
    /\ last_request_time = 0
    /\ now = 0
    /\ task = <<>> /\ hist = <<>>
    /\ handler \in [method : Methods, template : DOMAIN Templates, filter : Filters]
    /\ xs = [pc |-> "start", payloads |-> <<>>, k |-> 0, responses |-> <<>>,
             findings |-> <<>>, earlier |-> <<>>]

XssFrame ==
    /\ UNCHANGED <<clientVars, crawlerVars, engineVars, csrfVars, cmdVars, advVars, streamVars>>
    /\ UNCHANGED <<handler, sq>>

\* _test_reflected_xss: payloads = PayloadGenerator.get_xss_payloads(5)
XssSample ==
    /\ xs.pc = "start"
    /\ \E s \in get_xss_payloads(SampleSize) :
            xs' = [xs EXCEPT !.pc = "reflected", !.payloads = s, !.k = 1]
    /\ XssFrame

\* one turn of `for payload in payloads`: the payload is sent and the response
\* examined; a finding ends the loop, and so does the last payload
XssProbe ==
    /\ xs.pc = "reflected"
    /\ LET p == xs.payloads[xs.k]
           content == Render(handler, p)
           seen == Append(xs.responses, [payload |-> p, content |-> content])
       IN  xs' = IF is_payload_reflected(content, p) /\ is_executable(p, content)
                 THEN [xs EXCEPT !.pc = "done", !.responses = seen,
                          !.findings = <<XssFinding("/item", "q", handler.method, p)>>]
                 ELSE IF xs.k < Len(xs.payloads)
                 THEN [xs EXCEPT !.k = @ + 1, !.responses = seen]
                 ELSE [xs EXCEPT !.pc = "done", !.responses = seen]
    /\ XssFrame

\* the same parameter is tested again by a new detector, as in another scan
\* of the same target: what the earlier invocation returned is kept
XssAgain ==
    /\ xs.pc = "done" /\ Len(xs.earlier) + 1 < MaxScans
    /\ xs' = [pc |-> "start", payloads |-> <<>>, k |-> 0, responses |-> <<>>,
              findings |-> <<>>, earlier |-> Append(xs.earlier, xs.findings)]
    /\ XssFrame

XssNext ==
    \/ XssSample
    \/ XssProbe
    \/ XssAgain

XssSpec == XssInit /\ [][XssNext]_vars
(***************************************************************************)
(* Claims about the XSS detector, checked under XssSpec.                   *)
(***************************************************************************)
\* piece i of the content lies in the body of a <script> element
InScriptBody(content, i) ==
    \E j \in 1..(i - 1) :
        /\ MarkupOf(content[j], ScriptOpen)
        /\ \A m \in (j + 1)..(i - 1) : content[m] # Markup("</script>")

\* response r echoes its payload verbatim inside the body of a <script> element
EchoedInScript(r) ==
    \E i \in 1..Len(r.content) :
        r.content[i] = Echo(r.payload, "verbatim") /\ InScriptBody(r.content, i)

\* response r holds its payload in HTML-entity-encoded form and in no other
EntityEncodedOnly(r) ==
    /\ \E i \in 1..Len(r.content) : r.content[i] = Echo(r.payload, "entity")
    /\ \A i \in 1..Len(r.content) :
          r.content[i] \notin {Echo(r.payload, "verbatim"), Echo(r.payload, "url")}

\* the detector flags whenever a response echoes the sent payload verbatim
\* anywhere inside the body of a <script> element
FlagsScriptEcho ==
    (xs.pc = "done" /\ \E i \in 1..Len(xs.responses) : EchoedInScript(xs.responses[i]))
        => xs.findings # <<>>

\* it does not flag when the responses hold the payload only entity-encoded
CleanWhenEncoded ==
    (xs.pc = "done" /\ \A i \in 1..Len(xs.responses) : EntityEncodedOnly(xs.responses[i]))
        => xs.findings = <<>>

\* C11 (as claimed): XSSDetector flags a parameter whenever the response
\* echoes a sent payload verbatim anywhere inside the body of a <script>
\* element, and does not flag when the response contains the payload only in
\* HTML-entity-encoded form.
C11_ScriptEcho == FlagsScriptEcho /\ CleanWhenEncoded

\* the echo at the start of the script body is flagged
FlagsScriptStart ==
    (xs.pc = "done" /\ \E i \in 1..Len(xs.responses) :
        \E n \in 2..Len(xs.responses[i].content) :
            /\ xs.responses[i].content[n] = Echo(xs.responses[i].payload, "verbatim")
            /\ MarkupOf(xs.responses[i].content[n - 1], ScriptOpen))
        => xs.findings # <<>>

\* C15: the finding list of a scan is ordered by (endpoint position, parameter
\* position, detector rank), the rank being SQLi, XSS, command injection, path
\* traversal, SSRF, and page-level CSRF after all parameters of the endpoint
\* (C15_Ordered, under EngineSpec), and two scans over identical pages and
\* identical responses produce the same sequence of findings: here, what the
\* XSS detector returns for a parameter is the same in every scan of a
\* handler that answers equal requests equally.
C15_Reproducible ==
    xs.pc = "done" => \A i \in 1..Len(xs.earlier) : xs.earlier[i] = xs.findings

\* the scans agree on whether the parameter is flagged when the handler
\* treats every payload alike
SameVerdictUnfiltered ==
    (xs.pc = "done" /\ handler.filter = "none") =>
        \A i \in 1..Len(xs.earlier) : (xs.earlier[i] = <<>>) <=> (xs.findings = <<>>)
(***************************************************************************)
(* CSRFDetector.test_page on its own: the markup is drawn from the forms   *)
(* below, and the one action applies test_page to it.                      *)
(***************************************************************************)
MaxForms == 2                   \* the forms of one page

\* the method attributes and the inputs of the forms
FormMethods == {"", "get", "post", "POST", "PUT", "DELETE", "PATCH"}

FormInputs ==
    { <<>>,
      <<Field("csrf_token", "hidden")>>,
      <<Field("csrf_token", "text")>>,
      <<Field("id", "hidden")>>,
      <<Field("q", "text"), Field("nonce", "hidden")>> }

CsrfForms ==
    {Form(TRUE, RootRel(<<"save">>, <<>>, ""), mth, ins) : mth \in FormMethods, ins \in FormInputs}

CsrfPages ==
    UNION {[1..n -> CsrfForms] : n \in 0..MaxForms}

\* a detector and the markup of a page, before test_page
CsrfInit ==
    /\ NoCrawler /\ NoClient /\ NoEngine
    /\ handler = None /\ sq = [pc |-> "idle"] /\ xs = [pc |-> "idle"] /\ cm = [pc |-> "idle"]
    /\ xx = [pc |-> "idle"] /\ adv = [pc |-> "idle"]
    /\ \E fs \in CsrfPages :
          cs = [pc |-> "start", url |-> Url(Host, <<"account">>, <<>>, ""),
                html |-> Doc(<<>>, <<>>, <<>>, <<>>, fs), findings |-> <<>>]

\* CSRFDetector.test_page(url, html)
CsrfTestPage ==
    /\ cs.pc = "start"
    /\ cs' = [cs EXCEPT !.pc = "done", !.findings = test_page(cs.url, cs.html)]
    /\ UNCHANGED <<crawlerVars, clientVars, engineVars, sqliVars, xssVars, cmdVars, advVars, streamVars>>

CsrfNext == CsrfTestPage

CsrfSpec == CsrfInit /\ [][CsrfNext]_vars
(***************************************************************************)
(* Claims about the CSRF detector, checked under CsrfSpec.                 *)
(***************************************************************************)
\* the form changes state and no hidden input of it is named like a token
Unprotected(form) ==
    /\ form.method \in {"post", "POST", "PUT", "DELETE", "PATCH"}
    /\ \A i \in 1..Len(form.fields) :
          ~(form.fields[i].type = "hidden"
            /\ form.fields[i].name \in {"csrf_token", "_token", "nonce", "state"})

NoSurface ==
    /\ crawled_pages # <<>>
    /\ \A i \in 1..Len(crawled_pages) :
          crawled_pages[i].forms = <<>> /\ crawled_pages[i].parameters = <<>>
    /\ \A i \in 1..Len(endpoints) :
          endpoints[i].type = "common_endpoint" => PagesAt(endpoints[i].url) = <<>>

\* C13: a scan of a target whose crawled pages have no forms and no query
\* parameters, and for which no common path matches, completes and returns
\* zero findings, whatever the responses contain.
C13_NoSurfaceNoFindings ==
    (epc = "returned" /\ NoSurface) => findings = <<>>

\* what holds of such a scan: every finding is on an injected parameter
C13_InjectedOnly ==
    (epc = "returned" /\ NoSurface) =>
        \A i \in 1..Len(findings) :
            /\ findings[i].parameter \in Range(InjectedParams)
            /\ findings[i].url \in {crawled_pages[j].url : j \in 1..Len(crawled_pages)}

\* C14: when get_testable_endpoints() returns an empty list, run() returns an
\* empty finding list at once: no detector has been invoked, no probe request
\* has been sent, the probe loop has not been entered.
C14_EmptyReturnsAtOnce ==
    /\ (epc = "probe" /\ endpoints = <<>>) =>
            (findings = <<>> /\ dlog = <<>> /\ pos = [e |-> 1, p |-> 1, d |-> 1])
    /\ (epc = "returned" /\ endpoints = <<>>) =>
            (findings = <<>> /\ dlog = <<>> /\ pos = [e |-> 1, p |-> 1, d |-> 1])
    /\ (epc = "raised") => endpoints # <<>>

\* the early return of a scan of a site that answers to injections
C14_Witness ==
    /\ epc = "returned" /\ endpoints = <<>> /\ crawled_pages = <<>>
    /\ site # {} /\ "sqli" \in get_profile_config(profile).tests

\* the findings of a completed scan, listed by endpoint, then parameter, then
\* detector rank, with the CSRF findings of an endpoint after its parameters
ScanOrder ==
    LET tests == get_profile_config(profile).tests
        ofDetector(ep, param, det) ==
            IF det \in tests THEN test_url_parameter(det, ep.url, param, ep.method, "open")
            ELSE <<>>
        ofParameter(ep, param) ==
            Flatten(MapSeq(LAMBDA det : ofDetector(ep, param, det),
                           <<"sqli", "xss", "cmd", "path_traversal", "ssrf">>))
        ofEndpoint(ep) ==
            Flatten(MapSeq(LAMBDA param : ofParameter(ep, param), ep.parameters))
            \o (IF "csrf" \in tests
                THEN Flatten(MapSeq(LAMBDA pg : test_page(ep.url, pg.html), PagesAt(ep.url)))
                ELSE <<>>)
    IN  Flatten(MapSeq(ofEndpoint, endpoints))

\* the order half of C15: the list a scan returns is ScanOrder
C15_Ordered == epc = "returned" => findings = ScanOrder

\* a returned list that holds findings of two detectors on one parameter and
\* a CSRF finding
C15_OrderedCase ==
    /\ epc = "returned" /\ Len(findings) > 2
    /\ \E i \in 1..Len(findings) : findings[i].type = "Cross-Site Request Forgery (CSRF)"
    /\ \E i \in 1..Len(findings) : findings[i].type = "OS Command Injection"

\* the detectors that have been invoked, and the tests of the found classes
Invoked == {dlog[i].det : i \in 1..Len(dlog)}

TestOf(type) ==
    CASE type = "SQL Injection (Time-based Blind)" -> "sqli"
      [] type = "Cross-Site Scripting (XSS)" -> "xss"
      [] type = "OS Command Injection" -> "cmd"
      [] type = "Path Traversal" -> "path_traversal"
      [] type = "Server-Side Request Forgery (SSRF)" -> "ssrf"
      [] type = "Cross-Site Request Forgery (CSRF)" -> "csrf"

Found == {TestOf(findings[i].type) : i \in 1..Len(findings)}

\* the crawl limits of a scan are those of its profile
ProfileLimits ==
    (profile \in {"quick", "balanced", "aggressive"} /\ epc # "init") =>
        /\ max_depth = ProfileTable[profile].max_depth
        /\ max_pages = ProfileTable[profile].max_pages

\* the timeout of every request of a scan is that of its profile: of the
\* fetches of the crawl, and of the requests of the probing phase
ProfileTimeout ==
    (profile \in {"quick", "balanced", "aggressive"} /\ epc # "init") =>
        /\ crawl_timeout = ProfileTable[profile].timeout
        /\ epc # "crawl" => timeout = ProfileTable[profile].timeout

\* the timeout of the requests of the probing phase is that of the profile
ProbeTimeout ==
    (profile \in {"quick", "balanced", "aggressive"} /\ epc \notin {"init", "crawl"}) =>
        timeout = ProfileTable[profile].timeout

\* a detector is invoked, and contributes findings, only if its test is enabled
EnabledOnly ==
    profile \in {"quick", "balanced", "aggressive"} =>
        /\ Invoked \subseteq ProfileTable[profile].tests
        /\ Found \subseteq ProfileTable[profile].tests
        /\ profile = "quick" => Found \subseteq {"sqli", "xss"}

\* C16: for each profile name in {quick, balanced, aggressive} the scan uses
\* exactly the profile table's max_depth, max_pages and timeout, and a
\* detector issues requests or contributes findings only if its test name is
\* in that profile's enabled set (under quick, only SQLi and XSS findings can
\* appear).
C16_ProfileTable == ProfileLimits /\ ProfileTimeout /\ EnabledOnly

\* C17: under the aggressive profile every test of the enabled set, xxe
\* included, is executed during the probing phase: a completed scan with at
\* least one discovered endpoint has issued at least one XXE probe.
C17_XxeProbed ==
    (epc = "returned" /\ profile = "aggressive" /\ endpoints # <<>>) => "xxe" \in Invoked

\* what holds: the five tests run() calls for a parameter have been executed
\* when an endpoint has a parameter, and no other
C17_ParamTests ==
    (epc = "returned" /\ profile = "aggressive"
        /\ \E i \in 1..Len(endpoints) : endpoints[i].parameters # <<>>)
    => Invoked \ {"csrf"} = {"sqli", "xss", "cmd", "path_traversal", "ssrf"}

\* the fetches of the crawl
Fetches == {i \in 1..Len(clog) : clog[i].ev \in {"fetched", "fetch_failed"}}

\* C18: a scan started with a profile name outside {quick, balanced,
\* aggressive} ends in a fatal configuration error reported to the caller: it
\* never reaches the probing phase nor returns a finding list, and no crawl
\* fetch or probe request has been issued.
C18_UnknownProfileFatal ==
    profile \notin {"quick", "balanced", "aggressive"} =>
        /\ epc \notin {"probe", "returned"}
        /\ Fetches = {} /\ Probes = {}

\* what holds: such a scan runs as a balanced one
C18_FallsBack ==
    (profile \notin {"quick", "balanced", "aggressive"} /\ epc # "init") =>
        /\ max_depth = ProfileTable["balanced"].max_depth
        /\ max_pages = ProfileTable["balanced"].max_pages
        /\ Invoked \subseteq ProfileTable["balanced"].tests
        /\ epc \notin {"init", "crawl"} => timeout = ProfileTable["balanced"].timeout

\* the keys a finding is to carry
FindingKeys ==
    {"type", "severity", "url", "parameter", "method", "payload", "evidence", "cvss_score"}

\* C19: every element of the finding list a scan returns, whichever detector
\* produced it, carries all of the keys type, severity, url, parameter,
\* method, payload, evidence and cvss_score.
C19_FindingKeys ==
    \A i \in 1..Len(findings) : FindingKeys \subseteq DOMAIN findings[i]

\* what holds: the keys every finding has, and the findings that have all
C19_CommonKeys ==
    \A i \in 1..Len(findings) :
        /\ {"type", "severity", "url", "evidence", "cvss_score"} \subseteq DOMAIN findings[i]
        /\ TestOf(findings[i].type) \in {"sqli", "xss", "cmd"}
              => FindingKeys \subseteq DOMAIN findings[i]
(***************************************************************************)
(* Every detector: a scan by the engine, or one of the detectors run on    *)
(* its own against a handler or a page.                                    *)
(***************************************************************************)
DetectorsInit == EngineInit \/ SqliInit \/ XssInit \/ CsrfInit

DetectorsNext ==
    \/ EngineNext
    \/ SqliNext
    \/ XssNext
    \/ CsrfNext

DetectorsSpec == DetectorsInit /\ [][DetectorsNext]_vars

\* the findings of the state: of the scan, and of each detector
FindingsOf(r) == IF "findings" \in DOMAIN r THEN r.findings ELSE <<>>

AllFindings ==
    findings \o FindingsOf(sq) \o FindingsOf(xs) \o FindingsOf(cs)
    \o (IF "earlier" \in DOMAIN xs THEN Flatten(xs.earlier) ELSE <<>>)

\* the severity and the score (in tenths) of each vulnerability class
Rating(sev, score) == [severity |-> sev, cvss_score |-> score]

ClassRating ==
    [t \in {"SQL Injection (Union-based)", "SQL Injection (Time-based Blind)",
            "SQL Injection (Error-based)", "SQL Injection (Boolean-based Blind)",
            "Cross-Site Scripting (XSS)", "OS Command Injection", "Path Traversal",
            "Server-Side Request Forgery (SSRF)", "Cross-Site Request Forgery (CSRF)"} |->
        CASE t = "SQL Injection (Union-based)" -> Rating("CRITICAL", 91)
          [] t = "SQL Injection (Time-based Blind)" -> Rating("HIGH", 86)
          [] t = "SQL Injection (Error-based)" -> Rating("CRITICAL", 91)
          [] t = "SQL Injection (Boolean-based Blind)" -> Rating("HIGH", 82)
          [] t = "Cross-Site Scripting (XSS)" -> Rating("HIGH", 75)
          [] t = "OS Command Injection" -> Rating("CRITICAL", 98)
          [] t = "Path Traversal" -> Rating("MEDIUM", 75)
          [] t = "Server-Side Request Forgery (SSRF)" -> Rating("HIGH", 78)
          [] t = "Cross-Site Request Forgery (CSRF)" -> Rating("MEDIUM", 65)]

\* C20: for any two findings produced by any detectors in any scans, equal
\* vulnerability class (type) implies equal severity and equal numeric score:
\* both are a function of the type alone, whatever the URL, the parameter,
\* the payload and the response.
C20_ClassRating ==
    /\ \A i \in 1..Len(AllFindings) :
          /\ AllFindings[i].type \in DOMAIN ClassRating
          /\ AllFindings[i].severity = ClassRating[AllFindings[i].type].severity
          /\ AllFindings[i].cvss_score = ClassRating[AllFindings[i].type].cvss_score
    /\ \A i, j \in 1..Len(AllFindings) :
          AllFindings[i].type = AllFindings[j].type =>
              /\ AllFindings[i].severity = AllFindings[j].severity
              /\ AllFindings[i].cvss_score = AllFindings[j].cvss_score

\* two XSS findings with different payloads from two scans of one handler
C20_Witness ==
    /\ xs.pc = "done" /\ xs.findings # <<>> /\ xs.earlier # <<>>
    /\ xs.earlier[1] # <<>>
    /\ xs.earlier[1][1].type = xs.findings[1].type
    /\ xs.earlier[1][1].payload # xs.findings[1].payload

\* findings of one class on two parameters in one scan
C20_TwoParameters ==
    \E i, j \in 1..Len(findings) :
        /\ findings[i].type = "OS Command Injection" /\ findings[j].type = findings[i].type
        /\ findings[i].parameter # findings[j].parameter
(***************************************************************************)
(* A scan during which one external interrupt is delivered.  The interrupt *)
(* arrives as asyncio.CancelledError at the await of the request that is   *)
(* in flight.  _measure_response_time of the SQL injection and command     *)
(* injection detectors and _send_payload of the path traversal and SSRF    *)
(* detectors wrap that await in a bare `except:`, which catches it; the    *)
(* other handlers are `except Exception`, which lets it pass.              *)
(***************************************************************************)
\* the detectors with a request inside a bare `except:`
BareExcept == {"sqli", "cmd", "path_traversal", "ssrf"}

\* the detectors with a request inside `except Exception` only
ExceptException == {"sqli", "xss"}

\* the interrupt, with the position of the scan and the findings at the time
Interrupt(det, url, param, method, fs) ==
    [det |-> "interrupt", during |-> det, url |-> url, parameter |-> param,
     method |-> method, findings |-> fs]

Interrupts == {i \in 1..Len(dlog) : dlog[i].det = "interrupt"}

\* an invocation of the next detector during which the interrupt is delivered
\* while a request is in flight: inside a bare except the request counts as
\* failed and the detector, then run(), go on; elsewhere the CancelledError
\* leaves the detector, the `async with` block and run()
EngineInterrupt ==
    /\ epc = "probe" /\ pos.e <= Len(endpoints)
    /\ pos.p <= Len(endpoints[pos.e].parameters)
    /\ Interrupts = {}
    /\ ParamDetectors[pos.d] \in get_profile_config(profile).tests
    /\ LET ep == endpoints[pos.e]
           param == ep.parameters[pos.p]
           det == ParamDetectors[pos.d]
           logged == dlog \o <<Invocation(det, ep.url, param, ep.method, session),
                              Interrupt(det, ep.url, param, ep.method, findings)>>
       IN  \/ /\ det \in BareExcept
              /\ \E found \in {<<>>, test_url_parameter(det, ep.url, param, ep.method, session)} :
                    findings' = findings \o found
              /\ dlog' = logged
              /\ pos' = IF pos.d < Len(ParamDetectors)
                        THEN [pos EXCEPT !.d = @ + 1]
                        ELSE [pos EXCEPT !.p = @ + 1, !.d = 1]
              /\ UNCHANGED <<epc, session>>
           \/ /\ det \in ExceptException
              /\ dlog' = logged
              /\ epc' = "raised"
              /\ session' = aexit(session)
              /\ UNCHANGED <<findings, pos>>
    /\ UNCHANGED <<target_url, profile, site, crawled_pages, endpoints>>
    /\ UNCHANGED <<timeout, max_retries, cache, last_request_time, now, task, hist>>
    /\ UNCHANGED <<crawlerVars, sqliVars, xssVars, csrfVars, cmdVars, advVars, streamVars>>

InterruptNext ==
    \/ EngineNext
    \/ EngineInterrupt

\* an aggressive scan of a target that answers to every class
InterruptInit ==
    /\ EngineInit
    /\ profile = "aggressive"
    /\ site = {"sqli", "xss", "cmd", "path_traversal", "ssrf"}

InterruptSpec == InterruptInit /\ [][InterruptNext]_vars

\* C21: when an external interrupt or cancellation is delivered while a probe
\* request is in flight, at whichever detector and suspension point, no
\* further probe request is issued afterwards, the scan terminates, and the
\* findings accumulated before the interrupt are unchanged.
C21_InterruptStops ==
    \A i \in Interrupts :
        /\ i = Len(dlog)
        /\ epc = "raised" /\ session = "closed"
        /\ findings = dlog[i].findings

\* what holds: an interrupt during a request of the XSS detector ends the scan
\* at once, and the findings accumulated before an interrupt stay in place
C21_XssInterruptStops ==
    \A i \in Interrupts :
        /\ dlog[i].during = "xss" =>
              (i = Len(dlog) /\ epc = "raised" /\ session = "closed"
               /\ findings = dlog[i].findings)
        /\ Len(dlog[i].findings) <= Len(findings)
        /\ SubSeq(findings, 1, Len(dlog[i].findings)) = dlog[i].findings
(***************************************************************************)
(* CommandInjectionDetector (scanner/detectors/cmd_injection.py), run      *)
(* through an open HTTPClient against one endpoint whose requests may      *)
(* fail.  One action is one _measure_response_time with the code around    *)
(* it.                                                                     *)
(***************************************************************************)
\* the payloads of _test_time_based
CmdPayloads == <<"; sleep 5", "| sleep 5", "& timeout 5", "&& timeout 5">>

\* the requests that get no answer: none, those that carry a payload (a
\* filter in front of the handler), or all of them
Drops == {"none", "payload", "all"}

\* the time a failing attempt takes: the client's timeout, or the time of a
\* refused connection or of another exception
AttemptDuration(kind) == IF kind = "timeout" THEN timeout ELSE 1

\* the sleeps between the attempts of a request that fails n + 1 times
RECURSIVE BackoffSum(_)
BackoffSum(n) == IF n = 0 THEN 0 ELSE Backoff(n - 1) + BackoffSum(n - 1)

\* HTTPClient._request(req) called at time tm when every attempt fails with
\* kind: max_retries attempts with the backoff between them for a timeout or
\* a connector error, one attempt for another exception; it returns None
RequestFailed(req, kind, c, lrt, tm) ==
    LET k == get_cache_key(req)
        cached == IF req.method = "GET" THEN check_cache(c, k, tm) ELSE None
        c1 == IF req.method = "GET" THEN check_cache_evict(c, k, tm) ELSE c
        sent == tm + RateLimitSleep(tm - lrt)
        back == IF Retryable(kind)
                THEN sent + max_retries * AttemptDuration(kind) + BackoffSum(max_retries - 1)
                ELSE sent + AttemptDuration(kind)
    IN  IF cached # None
        THEN [now |-> tm, cache |-> c, last_request_time |-> lrt, data |-> cached.val]
        ELSE [now |-> back, cache |-> c1, last_request_time |-> sent, data |-> None]

\* the handler drops the request that carries value
Dropped(value) ==
    handler.drops = "all" \/ (handler.drops = "payload" /\ value # "test")

\* CommandInjectionDetector._send_payload(url, param, value, method)
CmdSent(value) ==
    IF Dropped(value)
    THEN RequestFailed(send_payload(value, handler.method), handler.failure,
                       cache, last_request_time, now)
    ELSE RequestAnswered(send_payload(value, handler.method), value, handler,
                         cache, last_request_time, now)

\* the finding of _test_time_based; cvss_score in tenths
CmdFinding(url, param, method, payload) ==
    [type |-> "OS Command Injection", severity |-> "CRITICAL", url |-> url,
     parameter |-> param, method |-> method, payload |-> payload,
     evidence |-> "Response time increased significantly", cvss_score |-> 98]

\* `if payload_time > baseline_time + 4`
CmdFlagged(baseline_time, payload_time, data) ==
    payload_time > baseline_time + Seconds(4)

\* a detector constructed on an open client, before test_url_parameter
CmdInit ==
    /\ NoCrawler /\ NoEngine
    /\ sq = [pc |-> "idle"] /\ xs = [pc |-> "idle"] /\ cs = [pc |-> "idle"]
    /\ xx = [pc |-> "idle"] /\ adv = [pc |-> "idle"]
    /\ session = "open"
    /\ timeout = Seconds(15)
    /\ max_retries = default_max_retries
    /\ cache = EmptyCache
    /\ last_request_time = 0
    /\ now \in {0, Seconds(2)}
    /\ task = <<>> /\ hist = <<>>
    /\ handler \in [method : Methods, latency : {1, Seconds(5)}, sleep_delay : SleepDelays,
                    flaw : {"none"}, drops : Drops, failure : Failures]
    /\ cm = [pc |-> "baseline", k |-> 1, baseline_time |-> 0, probes |-> <<>>,
             findings |-> <<>>]

CmdFrame ==
    /\ UNCHANGED <<session, timeout, max_retries, task, hist, handler, sq>>
    /\ UNCHANGED <<crawlerVars, engineVars, xssVars, csrfVars, streamVars, advVars>>

\* baseline_time = await self._measure_response_time(url, param, "test", method)
CmdBaseline ==
    /\ cm.pc = "baseline"
    /\ LET r == CmdSent("test")
       IN  /\ cm' = [cm EXCEPT !.pc = "payload", !.baseline_time = r.now - now]
           /\ now' = r.now
           /\ cache' = r.cache
           /\ last_request_time' = r.last_request_time
    /\ CmdFrame

\* payload_time = await self._measure_response_time(url, param, payload,
\* method), and the decision: a finding ends the loop, and so does the last
\* payload
CmdPayload ==
    /\ cm.pc = "payload"
    /\ LET payload == CmdPayloads[cm.k]
           r == CmdSent(payload)
           payload_time == r.now - now
           flagged == CmdFlagged(cm.baseline_time, payload_time, r.data)
           probe == [payload |-> payload,
                     outcome |-> IF r.data = None THEN handler.failure ELSE "answered",
                     baseline_time |-> cm.baseline_time, payload_time |-> payload_time,
                     flagged |-> flagged]
       IN  /\ cm' = IF flagged
                    THEN [cm EXCEPT !.pc = "done", !.probes = Append(@, probe),
                             !.findings = <<CmdFinding("/item", "id", handler.method, payload)>>]
                    ELSE IF cm.k < Len(CmdPayloads)
                    THEN [cm EXCEPT !.pc = "baseline", !.k = @ + 1, !.probes = Append(@, probe)]
                    ELSE [cm EXCEPT !.pc = "done", !.probes = Append(@, probe)]
           /\ now' = r.now
           /\ cache' = r.cache
           /\ last_request_time' = r.last_request_time
    /\ CmdFrame

CmdNext ==
    \/ CmdBaseline
    \/ CmdPayload

CmdSpec == CmdInit /\ [][CmdNext]_vars
(***************************************************************************)
(* Claims about failing probes, checked under CmdSpec.                     *)
(***************************************************************************)
\* the probes whose payload request got no response
FailedProbes == {i \in 1..Len(cm.probes) : cm.probes[i].outcome # "answered"}

\* C22: no detector entry point propagates an exception to the orchestrator:
\* when the request of a probe returns Failure or raises, that probe
\* contributes no finding, and the detector goes on with its next probe and
\* returns.
C22_FailedProbeSilent ==
    /\ \A i \in FailedProbes : ~cm.probes[i].flagged
    /\ \A i \in FailedProbes : i < Len(CmdPayloads) => (cm.pc # "done" \/ Len(cm.probes) > i)
    /\ cm.pc = "done" => Len(cm.findings) <= 1

\* what holds: a request that raises another exception gives no finding, and
\* after a failed probe without a finding the detector goes on to the next
C22_OtherExceptionSilent ==
    /\ \A i \in FailedProbes : cm.probes[i].outcome = "other" => ~cm.probes[i].flagged
    /\ \A i \in FailedProbes :
          (~cm.probes[i].flagged /\ i < Len(CmdPayloads)) =>
              (cm.pc # "done" \/ Len(cm.probes) > i)

\* C23: a transport failure can only reduce the findings of a scan: a probe
\* whose payload request ends in Failure after timeouts or connection errors,
\* the time spent in retries and backoff included, never yields a finding of
\* the timing-based check.
C23_FailureNeverFlags ==
    \A i \in 1..Len(cm.probes) :
        cm.probes[i].outcome \in {"timeout", "connector"} =>
            (~cm.probes[i].flagged /\ (cm.pc = "done" => cm.findings = <<>> \/ Len(cm.probes) > i))

\* what holds: when no request at all is answered there is no finding
C23_DownHostClean ==
    handler.drops = "all" => cm.findings = <<>>
NotInitialized == cpc = "done" /\ browser = "none"

\* the start URL is one the loop fetches
StartFetchable == max_pages > 0 /\ ~SkipEntry(start_url, 0)

\* C25: if the headless rendering layer cannot be initialized at crawl
\* start, crawl() does not abort: it switches to non-rendered mode, every
\* later page fetch uses the raw fetch, rendering is never attempted again,
\* and the start page is still fetched, and recorded when its raw fetch
\* succeeds.
C25_FallbackContinues ==
    (NotInitialized /\ StartFetchable) =>
        /\ use_js_rendering = FALSE
        /\ cur.url = start_url /\ cur.via = [st |-> "raw"]
        /\ cur.page_data # None => (Len(pages) = 1 /\ pages[1].url = start_url)

\* what holds: when chromium.launch() is what fails, the crawl goes on in
\* non-rendered mode, fetches the start page raw and records it
C25_LaunchFallback ==
    /\ (cpc \in {"loop", "after", "close"} /\ browser = "none") =>
           (use_js_rendering = FALSE /\ cur.via \in {Unbound, [st |-> "raw"]})
    /\ (NotInitialized /\ StartFetchable /\ cur.url # Unbound) =>
           /\ cur.via = [st |-> "raw"]
           /\ cur.page_data # None => (Len(pages) = 1 /\ pages[1].url = start_url)

\* a crawl whose driver did not start: no fetch, no page
C25_Aborted ==
    NotInitialized /\ StartFetchable /\ cur.url = Unbound /\ pages = <<>>
(***************************************************************************)
(* A scan as one task stream.  run() and crawl() are one coroutine; a      *)
(* network request is sent at an `await` and the coroutine is suspended    *)
(* there until the request has ended.  A detector invocation awaits        *)
(* RequestsPerProbe requests one after another.                            *)
(***************************************************************************)
\* the requests one detector invocation sends
RequestsPerProbe == 2

\* requests that are started and not awaited
Suspended_Never(s) == FALSE

\* the coroutine is suspended at the await of a request in flight
Suspended(s) == s.fetch + s.probe > 0

\* the detector run() invokes next on a parameter, when there is one
AtDetector ==
    /\ epc = "probe" /\ pos.e <= Len(endpoints)
    /\ pos.p <= Len(endpoints[pos.e].parameters)

DetectorEnabled == ParamDetectors[pos.d] \in get_profile_config(profile).tests

StreamInit == EngineInit

\* _crawl_page sends the request of its fetch: `await self._render_with_js(url)`
\* or `await self._fetch_html(url)`
StreamFetchSend ==
    /\ epc = "crawl" /\ cpc = "loop" /\ LoopRuns
    /\ ~SkipEntry(Head(to_crawl)[1], Head(to_crawl)[2])
    /\ ~Suspended(stream)
    /\ stream' = [stream EXCEPT !.fetch = @ + 1]
    /\ UNCHANGED <<crawlerVars, clientVars, engineVars, sqliVars, xssVars, csrfVars, cmdVars, advVars>>

\* the fetch has ended: the rest of the iteration
StreamFetchBack ==
    /\ stream.fetch > 0
    /\ CrawlFetchStep
    /\ stream' = [stream EXCEPT !.fetch = @ - 1]

\* a detector sends its next request: `await self.http_client.get(...)`
StreamProbeSend ==
    /\ AtDetector /\ DetectorEnabled
    /\ ~Suspended(stream)
    /\ stream.sent < RequestsPerProbe
    /\ stream' = [stream EXCEPT !.probe = @ + 1, !.sent = @ + 1, !.probed = TRUE]
    /\ UNCHANGED <<crawlerVars, clientVars, engineVars, sqliVars, xssVars, csrfVars, cmdVars, advVars>>

\* a request of the detector has ended and the detector has more to send
StreamProbeBack ==
    /\ AtDetector /\ DetectorEnabled
    /\ stream.probe > 0 /\ stream.sent < RequestsPerProbe
    /\ stream' = [stream EXCEPT !.probe = @ - 1]
    /\ UNCHANGED <<crawlerVars, clientVars, engineVars, sqliVars, xssVars, csrfVars, cmdVars, advVars>>

\* the last request of the detector has ended and test_url_parameter returns,
\* or the profile does not enable the detector
StreamDetect ==
    /\ AtDetector
    /\ IF DetectorEnabled
       THEN /\ stream.probe > 0 /\ stream.sent = RequestsPerProbe
            /\ stream' = [stream EXCEPT !.probe = @ - 1, !.sent = 0]
       ELSE /\ ~Suspended(stream)
            /\ UNCHANGED stream
    /\ EngineDetectStep

\* an exception or a cancellation inside the loop: the request in flight, if
\* any, is abandoned
StreamRaise ==
    /\ EngineRaiseStep
    /\ stream' = [stream EXCEPT !.probe = 0, !.sent = 0]

StreamNext ==
    \/ EngineStart
    \/ CrawlPlaywrightFails
    \/ CrawlLaunch
    \/ CrawlSkip
    \/ StreamFetchSend
    \/ StreamFetchBack
    \/ CrawlLoopExit
    \/ CrawlUnbound
    \/ CrawlRecord
    \/ CrawlClose
    \/ EngineEnter
    \/ EngineNoEndpoints
    \/ StreamProbeSend
    \/ StreamProbeBack
    \/ StreamDetect
    \/ EngineCsrf
    \/ EngineFinish
    \/ StreamRaise

StreamSpec == StreamInit /\ [][StreamNext]_vars

\* C26: during one scan at most one network request (crawl fetch or probe)
\* is in flight at any instant, and the crawl has completed before the first
\* probe request is issued.
C26_OneInFlight ==
    /\ stream.fetch + stream.probe <= 1
    /\ stream.probed => (cpc = "done" /\ stream.fetch = 0)

\* a probe request in flight after a crawl that fetched a page and after an
\* earlier detector invocation
C26_Witness ==
    /\ stream.probe = 1 /\ Len(pages) = 1 /\ Len(dlog) >= 1
    /\ Events("fetched") # {}
(***************************************************************************)
(* The cache of an open HTTPClient, used by one caller through get, post   *)
(* and head.  The client has made a GET of /b before, or no call at all.   *)
(***************************************************************************)
\* head(url)
HeadRequest == Req("HEAD", "/a", "{}")

\* the cache after an earlier GET of /b answered with 200 at time tm
Cached(req, tm) ==
    CachePut(EmptyCache, get_cache_key(req),
             [data |-> ResponseData(200, "ok", tm), timestamp |-> tm])

CacheInit ==
    /\ NoCrawler /\ NoEngine /\ NoDetector
    /\ session = "open"
    /\ timeout = Seconds(30)
    /\ max_retries = 2
    /\ now = Seconds(2)
    /\ \/ cache = EmptyCache /\ last_request_time = 0
       \/ cache = Cached(Req("GET", "/b", "{}"), Seconds(1)) /\ last_request_time = Seconds(1) - 1
    /\ task = [t \in Tasks |-> IdleTask]
    /\ hist = <<>>

\* head() up to its first await: _rate_limit up to its sleep; no cache lookup
HttpHead(t) ==
    /\ task[t].pc = "idle"
    /\ Len(hist) < MaxCalls
    /\ session = "open"
    /\ \E gap \in Gaps :
        LET tm == now + gap
            n == Len(hist) + 1
            h == Append(hist, NewCall(HeadRequest, tm))
            me == [IdleTask EXCEPT !.req = HeadRequest, !.call = n]
            sleep == RateLimitSleep(tm - last_request_time)
        IN  /\ now' = tm
            /\ IF sleep > 0
               THEN /\ task' = [task EXCEPT ![t] = [me EXCEPT !.pc = "rate_limit",
                                                             !.until = tm + sleep]]
                    /\ hist' = h
                    /\ UNCHANGED last_request_time
               ELSE /\ last_request_time' = tm
                    /\ task' = [task EXCEPT ![t] = [me EXCEPT !.pc = "inflight"]]
                    /\ hist' = [h EXCEPT ![n].stamp = tm, ![n].sent = <<tm>>]
    /\ UNCHANGED <<session, timeout, max_retries, cache>>
    /\ UNCHANGED <<crawlerVars, engineVars, sqliVars, xssVars, csrfVars, cmdVars, advVars, streamVars>>

CacheNext ==
    \/ \E t \in Tasks : HttpCall(t)
    \/ \E t \in Tasks : HttpHead(t)
    \/ \E t \in Tasks : HttpRateLimited(t)
    \/ \E t \in Tasks : HttpResponse(t)
    \/ \E t \in Tasks : HttpFailure(t)
    \/ \E t \in Tasks : HttpBackoffOver(t)

CacheSpec == CacheInit /\ [][CacheNext]_vars
(***************************************************************************)
(* Claims about the cache, checked under CacheSpec.                        *)
(***************************************************************************)
\* the keys whose entry the step adds or changes
Written == {k \in DOMAIN cache' : k \notin DOMAIN cache \/ cache'[k] # cache[k]}

\* the step is the answer, with status 200, to the GET whose key is k
Get200Answered(k) ==
    \E t \in Tasks :
        /\ task[t].pc = "inflight" /\ task[t].req.method = "GET"
        /\ get_cache_key(task[t].req) = k
        /\ cache'[k].data.status = 200
        /\ hist'[task[t].call].result = Some(cache'[k].data)

\* C27: every cache entry was stored by a GET request answered with status
\* 200; POST requests, HEAD requests, responses with another status and
\* failed requests never add or change a cache entry.
C27_StoredByGet200 ==
    /\ [](\A k \in DOMAIN cache : k[1] = "GET" /\ cache[k].data.status = 200)
    /\ [][\A k \in Written : Get200Answered(k)]_vars

\* an entry in the cache after a HEAD was answered and after a GET was
\* answered with another status
C27_Witness ==
    /\ DOMAIN cache # {}
    /\ \E i, j \in Calls :
          /\ hist[i].req.method \in {"HEAD", "POST"} /\ hist[i].result # None
          /\ hist[j].req.method = "GET" /\ hist[j].result # None
          /\ hist[j].result.val.status # 200

\* the step is a call served from the cache
HitStep == Len(hist') = Len(hist) + 1 /\ hist'[Len(hist')].hit

\* C28: a GET served from the cache performs no network attempt and no
\* rate-limit sleep, and leaves last_request_time and the cache contents
\* unchanged.
C28_HitFrame ==
    /\ [](\A i \in Calls : hist[i].hit =>
            /\ hist[i].sent = <<>> /\ hist[i].stamp = -1 /\ hist[i].sleeps = <<>>
            /\ hist[i].done /\ hist[i].end = hist[i].start)
    /\ [][HitStep => /\ cache' = cache
                     /\ last_request_time' = last_request_time
                     /\ task' = task
                     /\ now' = hist'[Len(hist')].start]_vars

\* a hit that came sooner than rate_limit_delay after the request before it
C28_Witness ==
    \E i \in Calls :
        /\ hist[i].hit
        /\ hist[i].start - last_request_time < rate_limit_delay

\* the entry of key k has reached its TTL at time tm
Expired(c, k, tm) == k \in DOMAIN c /\ tm - c[k].timestamp >= cache_ttl

\* the step is a get/post call; its request and the time it is made
CallStep == Len(hist') = Len(hist) + 1

\* C29: a cache entry whose age has reached the TTL is never returned: the
\* first lookup of its key at or after expiry removes the entry and the
\* request goes to the network; the entries of other keys are left in place
\* until they are looked up themselves.
C29_ExpiredNeverServed ==
    /\ [](\A i \in Calls : hist[i].hit =>
            hist[i].start - hist[i].result.val.timestamp < cache_ttl)
    /\ [][CallStep =>
            LET c == hist'[Len(hist')]
                k == get_cache_key(c.req)
            IN  /\ (c.req.method = "GET" /\ Expired(cache, k, c.start)) =>
                       (k \notin DOMAIN cache' /\ ~c.hit)
                /\ \A x \in DOMAIN cache : x # k => (x \in DOMAIN cache' /\ cache'[x] = cache[x])]_vars

\* a lookup that removed an expired entry while the entry of another key,
\* expired as well, stayed
C29_Witness ==
    \E i, j \in Calls :
        /\ i < j /\ hist[j].req = hist[i].req /\ hist[i].req.method = "GET"
        /\ Fetched200(i) /\ ~hist[j].hit
        /\ hist[j].start - hist[i].end >= cache_ttl
        /\ get_cache_key(hist[j].req) \notin DOMAIN cache
        /\ \E x \in DOMAIN cache : Expired(cache, x, hist[j].start)
(***************************************************************************)
(* One open HTTPClient shared by two tasks that call get/post              *)
(* concurrently: a task runs up to its next await, and the other may run   *)
(* while it sleeps or waits for the network.                               *)
(* The client has made no request yet, or has just dispatched one.         *)
(***************************************************************************)
Callers == {1, 2}

RaceInit ==
    /\ NoCrawler /\ NoEngine /\ NoDetector
    /\ session = "open"
    /\ timeout = Seconds(30)
    /\ max_retries = 2
    /\ cache = EmptyCache
    /\ last_request_time \in {0, Seconds(2)}
    /\ now = Seconds(2)
    /\ task = [t \in Callers |-> IdleTask]
    /\ hist = <<>>

\* the event loop resumes a sleeping task when its sleep is over: the clock
\* does not pass the deadline of a sleep by more than the sleep may be late
Timely ==
    \A u \in Callers :
        task[u].pc \in {"rate_limit", "backoff"} => now' <= task[u].until + 1

RaceNext ==
    \/ \E t \in Callers : HttpCall(t) /\ Timely
    \/ \E t \in Callers : HttpRateLimited(t) /\ Timely
    \/ \E t \in Callers : HttpResponse(t) /\ Timely
    \/ \E t \in Callers : HttpFailure(t) /\ Timely
    \/ \E t \in Callers : HttpBackoffOver(t) /\ Timely

RaceSpec == RaceInit /\ [][RaceNext]_vars

\* C30: any two calls through one HTTPClient that reach the network, calls
\* made by concurrently running tasks that interleave at the rate limiter's
\* sleep included, are dispatched at least rate_limit_delay apart.
C30_ConcurrentSpacing ==
    \A i, j \in Limited :
        (i < j /\ hist[i].sent # <<>> /\ hist[j].sent # <<>>) =>
            \/ hist[j].sent[1] - hist[i].sent[1] >= rate_limit_delay
            \/ hist[i].sent[1] - hist[j].sent[1] >= rate_limit_delay

\* what holds: a call that starts after the call before it has taken the rate
\* limiter's timestamp is dispatched rate_limit_delay after it or later
C30_SequentialSpacing ==
    \A i, j \in Limited :
        (i < j /\ hist[i].stamp <= hist[j].start) =>
            hist[j].stamp - hist[i].stamp >= rate_limit_delay
(***************************************************************************)
(* Claims about the techniques of the SQL injection detector, checked      *)
(* under SqliSpec.                                                         *)
(***************************************************************************)
\* the place of a technique in test_url_parameter
TechniqueRank(pc) ==
    CASE pc = "time_based" -> 1
      [] pc = "error_based" -> 2
      [] pc = "boolean_based" -> 3
      [] pc = "union_based" -> 4
      [] OTHER -> 5

\* the technique that reports findings of this type
TechniqueOf(type) ==
    CASE type = "SQL Injection (Time-based Blind)" -> "time_based"
      [] type = "SQL Injection (Error-based)" -> "error_based"
      [] type = "SQL Injection (Boolean-based Blind)" -> "boolean_based"
      [] type = "SQL Injection (Union-based)" -> "union_based"
      [] OTHER -> "none"

\* C31: test_url_parameter evaluates the techniques in the order time-based,
\* error-based, boolean-based, union-based and stops at the first technique
\* that yields a finding: no request of a later technique is sent after a
\* finding, and the returned list holds the finding of the earliest
\* successful technique only.
C31_FirstTechniqueWins ==
    /\ [](Len(sq.findings) <= 1 /\ (sq.findings # <<>> => sq.pc = "done"))
    /\ [][/\ sq.pc = "done" => UNCHANGED <<sq, now, cache, last_request_time>>
          /\ sq'.pc \notin {sq.pc, "done"} =>
                \/ TechniqueRank(sq'.pc) = TechniqueRank(sq.pc) + 1
                \/ /\ sq.pc = "union_based" /\ sq'.pc = "time_based"
                   /\ sq'.variation = sq.variation + 1
          /\ (sq.findings = <<>> /\ sq'.findings # <<>>) =>
                TechniqueOf(sq'.findings[1].type) = sq.pc]_vars

\* a finding of the third technique, after the first two found nothing
C31_Witness ==
    /\ sq.pc = "done" /\ sq.findings # <<>>
    /\ sq.findings[1].type = "SQL Injection (Boolean-based Blind)"
\* the findings that rest on an error signature
SignatureFindings ==
    {i \in 1..Len(sq.findings) :
        sq.findings[i].type \in {"SQL Injection (Error-based)", "SQL Injection (Union-based)"}}

\* C32: for an endpoint that renders the same database-error banner for
\* every input, test_url_parameter reports no SQL injection finding; an
\* error signature leads to a finding only when it is absent from the
\* baseline response and the content length differs from the baseline.
C32_BannerClean ==
    SignatureFindings # {} =>
        /\ handler.flaw # "banner"
        /\ ~HandlerContent(handler, "test").sql_error
        /\ HandlerContent(handler, sq.findings[1].payload).length
               # HandlerContent(handler, "test").length

\* what holds: the error-based test reports only a signature that the
\* baseline did not show and that came with another content length
C32_ErrorBasedGate ==
    \A i \in 1..Len(sq.findings) :
        sq.findings[i].type = "SQL Injection (Error-based)" =>
            /\ ~HandlerContent(handler, "test").sql_error
            /\ HandlerContent(handler, sq.findings[i].payload).sql_error
            /\ HandlerContent(handler, sq.findings[i].payload).length
                   # HandlerContent(handler, "test").length
(***************************************************************************)
(* XXEDetector.test_xml_endpoint (detectors/advanced.py): the first two    *)
(* XXE payloads are posted to the endpoint, and the verdict is taken from  *)
(* the status of the response and from the word DOCTYPE in its body.       *)
(***************************************************************************)
\* PayloadGenerator.XXE_PAYLOADS, named by the entity each declares
XXE_PAYLOADS == <<"file:///etc/passwd", "http://localhost:8080/test",
                  "http://attacker.com/xxe.dtd">>

\* `payloads[:2]`
XxePayloads == SubSeq(XXE_PAYLOADS, 1, 2)

\* the statuses an XML endpoint answers with
XmlStatuses == {200, 400, 404, 500}

\* how the endpoint answers one payload: not at all, or with a status and a
\* body that holds the word DOCTYPE (an echo of the document, a parser's
\* message about it, an HTML page) or does not
XmlAnswers == {None} \cup [status : XmlStatuses, doctype : BOOLEAN]

\* self.http_client.post(url, data=payload) at time tm: a POST is never
\* served from the cache nor stored in it
XmlPosted(payload, answer, lrt, tm) ==
    IF answer = None
    THEN RequestFailed(Req("POST", "/xml", <<"data", payload>>), handler.failure,
                       cache, lrt, tm)
    ELSE LET sent == tm + RateLimitSleep(tm - lrt)
         IN  [now |-> sent + 1, cache |-> cache, last_request_time |-> sent, data |-> answer]

\* `if response and ('DOCTYPE' not in response.get('content', '') or
\* response.get('status') == 200)`
XxeFlagged(response) ==
    response # None /\ (~response.doctype \/ response.status = 200)

\* `payload[:50]`: the first 50 characters of the first two payloads end
\* before the entity's address, those of the third inside its declaration
Prefix50(payload) ==
    IF payload = XXE_PAYLOADS[3]
    THEN "<?xml version=1.0?><!DOCTYPE root [<!ENTITY % dtd "
    ELSE "<?xml version=1.0?><!DOCTYPE root [<!ENTITY xxe "

\* the finding of test_xml_endpoint; cvss_score in tenths
XxeFinding(url, payload) ==
    [type |-> "XML External Entity (XXE)", severity |-> "HIGH", url |-> url,
     payload |-> Prefix50(payload), evidence |-> "XXE payload accepted", cvss_score |-> 81]

\* a detector constructed on an open client, before test_xml_endpoint
XxeInit ==
    /\ NoCrawler /\ NoEngine
    /\ sq = [pc |-> "idle"] /\ xs = [pc |-> "idle"] /\ cs = [pc |-> "idle"]
    /\ cm = [pc |-> "idle"] /\ adv = [pc |-> "idle"]
    /\ session = "open"
    /\ timeout = Seconds(15)
    /\ max_retries = default_max_retries
    /\ cache = EmptyCache
    /\ last_request_time = 0
    /\ now = 0
    /\ task = <<>> /\ hist = <<>>
    /\ handler \in [answers : [1..Len(XxePayloads) -> XmlAnswers], failure : {"timeout", "other"}]
    /\ xx = [pc |-> "post", k |-> 1, probes |-> <<>>, findings |-> <<>>]

\* one turn of `for payload in payloads[:2]`: the post and the decision; a
\* finding ends the loop, and so does the last payload
XxePost ==
    /\ xx.pc = "post"
    /\ LET payload == XxePayloads[xx.k]
           r == XmlPosted(payload, handler.answers[xx.k], last_request_time, now)
           flagged == XxeFlagged(r.data)
           probe == [payload |-> payload, response |-> r.data, flagged |-> flagged]
       IN  /\ xx' = IF flagged
                    THEN [xx EXCEPT !.pc = "done", !.probes = Append(@, probe),
                             !.findings = <<XxeFinding("/xml", payload)>>]
                    ELSE IF xx.k < Len(XxePayloads)
                    THEN [xx EXCEPT !.k = @ + 1, !.probes = Append(@, probe)]
                    ELSE [xx EXCEPT !.pc = "done", !.probes = Append(@, probe)]
           /\ now' = r.now
           /\ cache' = r.cache
           /\ last_request_time' = r.last_request_time
    /\ UNCHANGED <<session, timeout, max_retries, task, hist, handler, sq, adv>>
    /\ UNCHANGED <<crawlerVars, engineVars, xssVars, csrfVars, cmdVars, streamVars>>

XxeNext == XxePost

XxeSpec == XxeInit /\ [][XxeNext]_vars

\* C33: XXEDetector.test_xml_endpoint flags a response only when its status
\* is 200 and its body shows no DOCTYPE rejection; a response with a status
\* other than 200, or a 200 response whose body contains DOCTYPE, yields no
\* finding.
C33_FlaggedOnly200NoDoctype ==
    \A i \in 1..Len(xx.probes) :
        xx.probes[i].flagged =>
            /\ xx.probes[i].response.status = 200
            /\ ~xx.probes[i].response.doctype

\* what holds: the request that fails yields no finding, and neither does
\* the response that has another status than 200 and holds DOCTYPE; every
\* other response is flagged, and the finding is that of the flagged payload
C33_FlaggedUnlessRejected ==
    /\ \A i \in 1..Len(xx.probes) :
          LET response == xx.probes[i].response
          IN  xx.probes[i].flagged <=>
                  /\ response # None
                  /\ ~(response.status # 200 /\ response.doctype)
    /\ xx.findings # <<>> <=> \E i \in 1..Len(xx.probes) : xx.probes[i].flagged
    /\ \A i \in 1..Len(xx.probes) :
          xx.probes[i].flagged => xx.findings = <<XxeFinding("/xml", xx.probes[i].payload)>>
(***************************************************************************)
(* PathTraversalDetector and SSRFDetector (detectors/advanced.py): the     *)
(* same loop over the first payloads of a list, with the detector's own    *)
(* indicator words.                                                        *)
(***************************************************************************)
\* PayloadGenerator.PATH_TRAVERSAL_PAYLOADS[:5] and SSRF_PAYLOADS[:3]
AdvPayloads(det) ==
    IF det = "path_traversal"
    THEN <<"../../../etc/passwd", "..\\..\\..\\windows\\win.ini", "....//....//....//etc/passwd",
           "..;/..;/..;/etc/passwd", "%2e%2e%2fetc%2fpasswd">>
    ELSE <<"http://localhost/admin", "http://127.0.0.1/admin", "http://localhost:8080">>

\* the indicators of _has_file_disclosure and of _indicates_ssrf
Indicators(det) ==
    IF det = "path_traversal" THEN {"root:x:", "administrator", "daemon:"}
    ELSE {"admin", "private", "internal"}

\* `any(ind in content for ind in indicators)`, the content taken as the set
\* of the indicator words it holds
HasIndicator(det, response) == response.content \cap Indicators(det) # {}

\* what the body of the endpoint shows for a payload that gets through
Disclosures == {{"root:x:", "daemon:"}, {"internal"}}

\* HTTPClient._request(req) called at time tm when the first attempt is
\* answered after latency with content
Answered(req, latency, content, c, lrt, tm) ==
    LET k == get_cache_key(req)
        cached == IF req.method = "GET" THEN check_cache(c, k, tm) ELSE None
        c1 == IF req.method = "GET" THEN check_cache_evict(c, k, tm) ELSE c
        sent == tm + RateLimitSleep(tm - lrt)
        back == sent + latency
        data == ResponseData(200, content, back)
    IN  IF cached # None
        THEN [now |-> tm, cache |-> c, last_request_time |-> lrt, data |-> cached.val]
        ELSE [now |-> back,
              cache |-> IF Cacheable(req.method, 200)
                        THEN CachePut(c1, k, [data |-> data, timestamp |-> back])
                        ELSE c1,
              last_request_time |-> sent,
              data |-> data]

\* _send_payload(url, param, payload, method): None when the request fails
AdvSent(payload) ==
    IF payload \in handler.lost
    THEN RequestFailed(send_payload(payload, handler.method), handler.failure,
                       cache, last_request_time, now)
    ELSE Answered(send_payload(payload, handler.method), 1,
                  IF payload \in handler.hits THEN handler.shows ELSE {},
                  cache, last_request_time, now)

\* the finding of the two detectors: no 'method' key; cvss_score in tenths
AdvFinding(det, url, param, payload) ==
    IF det = "path_traversal"
    THEN [type |-> "Path Traversal", severity |-> "MEDIUM", url |-> url, parameter |-> param,
          payload |-> payload, evidence |-> "File/directory content disclosed",
          cvss_score |-> 75]
    ELSE [type |-> "Server-Side Request Forgery (SSRF)", severity |-> "HIGH", url |-> url,
          parameter |-> param, payload |-> payload,
          evidence |-> "Server appears to have processed URL", cvss_score |-> 78]

\* a loop that appends the finding and goes on with the next payload
AfterFlagged_NoBreak(s, probe, finding) ==
    IF s.k < Len(AdvPayloads(s.det))
    THEN [s EXCEPT !.k = @ + 1, !.probes = Append(@, probe), !.findings = Append(@, finding)]
    ELSE [s EXCEPT !.pc = "done", !.probes = Append(@, probe),
             !.findings = Append(@, finding)]

\* `findings.append({...})` and `break`
AfterFlagged(s, probe, finding) ==
    [s EXCEPT !.pc = "done", !.probes = Append(@, probe), !.findings = Append(@, finding)]

\* one of the two detectors constructed on an open client, before
\* test_url_parameter
AdvInit ==
    /\ NoCrawler /\ NoEngine
    /\ sq = [pc |-> "idle"] /\ xs = [pc |-> "idle"] /\ cs = [pc |-> "idle"]
    /\ cm = [pc |-> "idle"] /\ xx = [pc |-> "idle"]
    /\ session = "open"
    /\ timeout = Seconds(15)
    /\ max_retries = default_max_retries
    /\ cache = EmptyCache
    /\ last_request_time = 0
    /\ now = 0
    /\ task = <<>> /\ hist = <<>>
    /\ \E det \in {"path_traversal", "ssrf"} :
          /\ handler \in [method : Methods, hits : SUBSET Range(AdvPayloads(det)),
                          shows : Disclosures,
                          lost : {{}, {AdvPayloads(det)[1]}, Range(AdvPayloads(det))},
                          failure : {"timeout", "other"}]
          /\ adv = [det |-> det, pc |-> "send", k |-> 1, probes |-> <<>>, findings |-> <<>>]

\* one turn of `for payload in payloads[:5]` (`[:3]` in SSRFDetector): the
\* payload is sent and the response examined
AdvProbe ==
    /\ adv.pc = "send"
    /\ LET payload == AdvPayloads(adv.det)[adv.k]
           r == AdvSent(payload)
           flagged == r.data # None /\ HasIndicator(adv.det, r.data)
           probe == [payload |-> payload, sent |-> r.last_request_time, flagged |-> flagged]
       IN  /\ adv' = IF flagged
                     THEN AfterFlagged(adv, probe, AdvFinding(adv.det, "/item", "id", payload))
                     ELSE IF adv.k < Len(AdvPayloads(adv.det))
                     THEN [adv EXCEPT !.k = @ + 1, !.probes = Append(@, probe)]
                     ELSE [adv EXCEPT !.pc = "done", !.probes = Append(@, probe)]
           /\ now' = r.now
           /\ cache' = r.cache
           /\ last_request_time' = r.last_request_time
    /\ UNCHANGED <<session, timeout, max_retries, task, hist, handler, sq, xx>>
    /\ UNCHANGED <<crawlerVars, engineVars, xssVars, csrfVars, cmdVars, streamVars>>

AdvNext == AdvProbe

(***************************************************************************)
(* The parameter-level detectors, each run on its own for one (url,        *)
(* parameter, method).                                                     *)
(***************************************************************************)
ParamInit == SqliInit \/ XssInit \/ CmdInit \/ AdvInit

ParamNext ==
    \/ SqliNext
    \/ XssNext
    \/ CmdNext
    \/ AdvNext

ParamSpec == ParamInit /\ [][ParamNext]_vars

\* the findings of the invocation that is running or has returned
InvocationFindings ==
    FindingsOf(sq) \o FindingsOf(xs) \o FindingsOf(cm) \o FindingsOf(adv)

\* the payload requests the detectors have made: the responses and probes
\* they recorded
ProbesOf(r) ==
    IF "responses" \in DOMAIN r THEN Len(r.responses)
    ELSE IF "probes" \in DOMAIN r THEN Len(r.probes)
    ELSE 0

\* C34: each invocation of a parameter-level detector (SQLi, XSS, command
\* injection, path traversal, SSRF) for one (url, parameter, method) returns
\* at most one finding, and sends no further payload after the payload that
\* produced the finding.
C34_OneFindingThenStop ==
    /\ [](Len(InvocationFindings) <= 1)
    /\ [][InvocationFindings # <<>> =>
             /\ UNCHANGED <<now, cache, last_request_time>>
             /\ ProbesOf(xs') <= ProbesOf(xs)
             /\ ProbesOf(cm') = ProbesOf(cm)
             /\ ProbesOf(adv') = ProbesOf(adv)
             /\ FindingsOf(sq') = FindingsOf(sq)]_vars

\* a path traversal or SSRF test found its first payload disclosed, on an
\* endpoint that would disclose for a later payload too, and has returned
C34_Witness ==
    /\ adv.pc = "done" /\ Len(adv.findings) = 1 /\ Len(adv.probes) = 1
    /\ Cardinality(handler.hits) > 1
    /\ handler.shows \cap Indicators(adv.det) # {}
(***************************************************************************)
(* Claims about the CSRF analysis of a scan, checked under EngineSpec.     *)
(***************************************************************************)
\* the calls of CSRFDetector.test_page for url, and the CSRF findings of the
\* scan for url
CsrfCalls(url) == {i \in 1..Len(dlog) : dlog[i].det = "csrf" /\ dlog[i].url = url}

CsrfFindings(url) ==
    {i \in 1..Len(findings) :
        findings[i].type = "Cross-Site Request Forgery (CSRF)" /\ findings[i].url = url}

\* the endpoints of the scan whose url is url
EndpointsAt(url) == {i \in 1..Len(endpoints) : endpoints[i].url = url}

\* a scan with the csrf test enabled has returned
CsrfScanned == epc = "returned" /\ "csrf" \in get_profile_config(profile).tests

\* C35: with csrf enabled, each crawled page's stored markup is analysed by
\* the CSRF detector exactly once per scan, however many endpoints share that
\* page's URL: the scan's CSRF findings for a page number exactly its
\* unprotected state-changing forms, with no duplicates.
C35_CsrfOncePerPage ==
    CsrfScanned =>
        \A i \in 1..Len(crawled_pages) :
            LET pg == crawled_pages[i]
            IN  /\ Cardinality(CsrfCalls(pg.url)) = 1
                /\ Cardinality(CsrfFindings(pg.url)) = Len(test_page(pg.url, pg.html))

\* what holds: a page is analysed once for each endpoint whose url is the
\* page's, and every analysis adds the findings of its unprotected forms again
C35_CsrfOncePerEndpoint ==
    CsrfScanned =>
        \A i \in 1..Len(crawled_pages) :
            LET pg == crawled_pages[i]
                n == Cardinality(EndpointsAt(pg.url))
            IN  /\ Cardinality(CsrfCalls(pg.url)) = n
                /\ Cardinality(CsrfFindings(pg.url)) = n * Len(test_page(pg.url, pg.html))

\* a page with an unprotected form that was analysed more than once
C35_Repeated ==
    /\ CsrfScanned
    /\ \E i \in 1..Len(crawled_pages) :
          /\ test_page(crawled_pages[i].url, crawled_pages[i].html) # <<>>
          /\ Cardinality(CsrfCalls(crawled_pages[i].url)) > 1
(***************************************************************************)
(* Claims about the endpoints of a scan, checked under EngineSpec.         *)
(***************************************************************************)
\* the detector invocations of the scan that send requests to another
\* network location than the target's
ForeignProbes == {i \in Probes : netloc(dlog[i].url) # netloc(target_url)}

\* C36: every probe request issued in the probing phase targets the start
\* URL's host: every endpoint returned by get_testable_endpoints(), including
\* form endpoints built from a form's action attribute, has the same network
\* location as the start URL.
C36_ProbesStayOnHost ==
    /\ \A i \in 1..Len(endpoints) : netloc(endpoints[i].url) = netloc(target_url)
    /\ ForeignProbes = {}

\* what holds: the endpoints that are not built from a form have the network
\* location of the start URL, and so have the probes of their parameters
C36_NonFormOnHost ==
    /\ \A i \in 1..Len(endpoints) :
          endpoints[i].type # "form" => netloc(endpoints[i].url) = netloc(target_url)
    /\ \A i \in ForeignProbes :
          \E j \in 1..Len(endpoints) :
              /\ endpoints[j].type = "form"
              /\ endpoints[j].url = dlog[i].url
              /\ dlog[i].parameter \in Range(endpoints[j].parameters)
(***************************************************************************)
(* Claims about get_testable_endpoints, checked under CrawlerSpec.         *)
(***************************************************************************)
\* the positions of a sequence that hold an element an earlier position holds
Duplicates(s) == {j \in 1..Len(s) : \E i \in 1..(j - 1) : s[i] = s[j]}

\* C37: the list returned by get_testable_endpoints() is de-duplicated: it
\* never holds two entries with the same url, method, parameter list and
\* type, also when a page holds two forms with the same action and field
\* names.
C37_NoDuplicateEndpoints ==
    Duplicates(get_testable_endpoints(pages, start_url)) = {}

\* what holds: two equal entries are always form endpoints, and the entries
\* of the other four kinds appear once
C37_OnlyFormsRepeat ==
    LET eps == get_testable_endpoints(pages, start_url)
    IN  \A j \in Duplicates(eps) : eps[j].type = "form"

\* the common_endpoint entry of path p at the origin of start
CommonEntry(start, p) ==
    Endpoint([scheme |-> start.scheme, netloc |-> start.netloc, path |-> p,
              query |-> <<>>, frag |-> ""], "GET", <<>>, "common_endpoint")

\* how often entry e appears in the endpoint list
Occurrences(e) ==
    LET eps == get_testable_endpoints(pages, start_url)
    IN  Cardinality({j \in 1..Len(eps) : eps[j] = e})

\* C38: for every valid start URL, with or without a path or trailing slash,
\* get_testable_endpoints() includes one common_endpoint entry for each of
\* the well-known sensitive paths, resolved to the start URL's origin, whether
\* or not any page was crawled.
C38_CommonEndpointsAlways ==
    \A p \in Range(CommonPaths) : Occurrences(CommonEntry(start_url, p)) = 1

\* what holds: the twelve entries are there, once each, for a start URL that
\* has a path (a trailing slash is one), and none of type common_endpoint for
\* a start URL without a path
C38_CommonEndpointsWithPath ==
    LET eps == get_testable_endpoints(pages, start_url)
    IN  IF start_url.path # <<>>
        THEN \A p \in Range(CommonPaths) : Occurrences(CommonEntry(start_url, p)) = 1
        ELSE \A j \in 1..Len(eps) : eps[j].type # "common_endpoint"

\* C39: every link stored in a CrawledPage's links list is fragment-stripped
\* and appears once: no stored link contains a '#' fragment, whichever
\* extraction rule (anchor href, onclick, data-url, generic href) produced it.
C39_LinksStripped ==
    \A i \in 1..Len(pages) :
        /\ \A l \in Range(pages[i].links) : l.frag = ""
        /\ Duplicates(pages[i].links) = {}

\* what holds: every stored link appears once, and a stored link with a
\* fragment is one the onclick, data-url or generic href rule found
C39_LinksOnce ==
    \A i \in 1..Len(pages) :
        LET pg == pages[i]
            unstripped == JoinedLinks(start_url, pg.url, pg.html.onclicks)
                          \o JoinedLinks(start_url, pg.url, pg.html.data_urls)
                          \o SlashLinks(start_url, pg.url,
                                        pg.html.anchors \o pg.html.other_hrefs)
        IN  /\ Duplicates(pg.links) = {}
            /\ \A l \in Range(pg.links) : l.frag # "" => l \in Range(unstripped)

\* a recorded page that holds the same address with and without its fragment
C39_BothForms ==
    \E i \in 1..Len(pages) :
        \E l, k \in Range(pages[i].links) : l.frag # "" /\ k = StripFragment(l)
(***************************************************************************)
(* The return of crawl(), checked under CrawlerLive.                       *)
(***************************************************************************)
\* the URLs of the events e of the crawl, in order
EventUrls(e) == MapSeq(LAMBDA x : x.url, SelectSeq(clog, LAMBDA x : x.ev = e))

\* C40: crawl() always terminates and returns the list of recorded pages
\* without raising, whatever fetch, render or parse failures occur and also
\* when the start URL itself is skipped (excluded extension, depth or page
\* budget of zero); a page whose fetch or parse fails is skipped and is not
\* recorded.
C40_CrawlReturns ==
    /\ <>(cpc = "done")
    /\ [](cpc # "raised")
    /\ [](MapSeq(LAMBDA pg : pg.url, pages) = EventUrls("recorded"))
    /\ [](\A u \in Range(EventUrls("fetch_failed")) :
              \A i \in 1..Len(pages) : pages[i].url # u)

\* crawl() has returned an empty list after the fetch of the start URL
\* failed, or after the start URL was skipped and `if page_data:` raised
C40_Witness ==
    /\ cpc = "done" /\ pages = <<>>
    /\ \/ Events("fetch_failed") # {}
       \/ Events("error") # {} /\ cur.url = start_url /\ SkipEntry(start_url, 0)
====
